---- MODULE Spec2Model ----
(***************************************************************************)
(* Model of src/handler.py: the RunPod handler that pre-optimizes a mesh,  *)
(* dispatches a workflow to the local comfyui-api, reconciles the reply    *)
(* and uploads textures / rigged models / clothing to S3.                  *)
(*                                                                         *)
(* Python strings are modelled as sequences of tokens (a token is one or   *)
(* more characters that the code never splits), so that substring tests,   *)
(* endswith, replace and path joins are computed as the code computes      *)
(* them.  The empty string is <<>>.                                        *)
(***************************************************************************)
EXTENDS Integers, Sequences, FiniteSets, TLC

\* ------------------------------------------------------------------ bounds
MaxTime == 1          \* wall-clock seconds observed by the model: 0..MaxTime
MaxTextures == 2      \* longest texture list in a textures_json payload
MaxDirEntries == 2    \* entries of the output directory in the locator specification

\* ------------------------------------------------------------ job identities
Jobs == {"j1", "j2"}

\* --------------------------------------------------------- string operators
Digits == <<"0", "1", "2", "3", "4", "5", "6", "7", "8", "9">>

\* str(int(time.time()))
TimeStr(t) == <<Digits[t + 1]>>

\* a in b (Python substring test)
IsSubstr(a, b) ==
    \E i \in 0..(Len(b) - Len(a)) : SubSeq(b, i + 1, i + Len(a)) = a

\* s.endswith(tok), tok a single token
EndsWith(s, tok) == Len(s) > 0 /\ s[Len(s)] = tok

RECURSIVE Replace(_, _, _)
\* s.replace(old, new), old a single token, new a token sequence
Replace(s, old, new) ==
    IF s = <<>> THEN <<>>
    ELSE (IF Head(s) = old THEN new ELSE <<Head(s)>>) \o Replace(Tail(s), old, new)

\* os.path.join(dir, name), dir a single token ending in "/"
PathJoin(dir, name) == <<dir>> \o name

\* os.path.dirname(path), os.path.basename(path)
DirName(path) == path[1]
BaseName(path) == Tail(path)

ExtTokens == {".glb", ".fbx", ".png"}

\* os.path.splitext(name)[0]
SplitExtRoot(name) ==
    IF Len(name) > 0 /\ name[Len(name)] \in ExtTokens
    THEN SubSeq(name, 1, Len(name) - 1) ELSE name

\* os.path.basename(urlparse(url).path): a URL is <<"scheme://host/dir/", name tokens...>>
UrlBaseName(url) == IF url = <<>> THEN <<>> ELSE Tail(url)

InDir == "/opt/ComfyUI/input/"
OutDir == "/opt/ComfyUI/output/"

\* ---------------------------------------------------------------- variables
VARIABLES
    jobs,        \* per invocation of handler: its position and local variables
    fs,          \* the filesystem: path -> [kind, content, mtime]
    s3,          \* the bucket: key -> [body, content_type]
    s3_client,   \* the module-level s3_client singleton ("none" or "client")
    now          \* int(time.time()) as last observed

vars == <<jobs, fs, s3, s3_client, now>>

\* ------------------------------------------------------------- filesystem
Exists(f, path) == path \in DOMAIN f

File(content, mtime) == [kind |-> "file", content |-> content, mtime |-> mtime]
Directory(mtime) == [kind |-> "dir", content |-> <<>>, mtime |-> mtime]

\* open(path, 'wb').write(content)
WriteFile(f, path, content, t) ==
    [p \in (DOMAIN f) \cup {path} |-> IF p = path THEN File(content, t) ELSE f[p]]

\* mutant: a move (shutil.move) in place of the copy: the source is gone afterwards
MoveFile(f, src, dst) ==
    [p \in ((DOMAIN f) \ {src}) \cup {dst} |-> IF p = dst THEN File(f[src].content, f[src].mtime) ELSE f[p]]

\* shutil.copy2(src, dst): copies the bytes and the modification time
CopyFile(f, src, dst) ==
    [p \in (DOMAIN f) \cup {dst} |-> IF p = dst THEN File(f[src].content, f[src].mtime) ELSE f[p]]

\* os.remove(path)
RemoveFile(f, path) == [p \in (DOMAIN f) \ {path} |-> f[p]]

\* os.makedirs(dir, exist_ok=True)
MakeDirs(f, dir, t) ==
    IF <<dir>> \in DOMAIN f THEN f
    ELSE [p \in (DOMAIN f) \cup {<<dir>>} |-> IF p = <<dir>> THEN Directory(t) ELSE f[p]]

\* -------------------------------------------------------------- job inputs
Absent == <<"?absent">>

\* mesh_url values: absent, a .glb URL, a URL whose file name has no extension
MeshUrls == { <<>>, <<"https://x/", "mesh", ".glb">>, <<"https://y/", "mesh">> }

\* the local variables of one handler invocation before it is received
IdleJob == [
    pc |-> "idle",
    endpoint |-> <<>>,
    body |-> [input |-> [mesh_url |-> <<>>, output_name |-> Absent]],
    model_id |-> <<>>, user_id |-> <<>>, garment_id |-> <<>>,
    is_clothing_workflow |-> FALSE, is_rig_workflow |-> FALSE,
    mesh_url |-> <<>>, download |-> "none",
    downloaded_path |-> <<>>, optimized_input_path |-> <<>>,
    input_path |-> <<>>, output_path |-> <<>>,
    temp_welded |-> <<>>, temp_simplified |-> <<>>,
    cmds |-> <<>>,
    post |-> "none", sent |-> <<>>,
    reply |-> [t |-> "none"], api_response |-> [t |-> "none"],
    textures_json |-> [t |-> "none"], textures |-> <<>>, tex_i |-> 0,
    uploaded |-> <<>>, tex_log |-> <<>>, texture_urls |-> <<>>,
    listing |-> <<>>, glb_path |-> <<>>, fbx_path |-> <<>>,
    compressed_glb |-> <<>>, glb_url |-> <<>>, fbx_url |-> <<>>,
    node_i |-> 0, clothing_url |-> <<>>,
    uploads |-> <<>>, outs |-> {},
    result |-> <<>>,
    calls |-> <<>> ]

Set1(j, f, v) == [jobs EXCEPT ![j] = [@ EXCEPT ![f] = v]]

\* ------------------------------------------------------------ handler entry
\* mutant: every endpoint is a rig-avatar workflow
IsRigWorkflowAlways(endpoint) == TRUE

\* line 511
IsRigWorkflow(endpoint) == IsSubstr(<<"rig-avatar">>, endpoint)

\* line 508
IsClothingWorkflow(endpoint) == IsSubstr(<<"fit-clothing">>, endpoint)

\* handler(job), lines 495-520: read the job, derive identifiers and workflow kind
Receive(j) ==
    /\ jobs[j].pc = "received"
    /\ LET t == now IN
        LET inp == jobs[j].body.input
            model_id == IF inp.output_name = Absent
                        THEN <<"model_">> \o TimeStr(t) ELSE inp.output_name
            is_rig == IsRigWorkflow(jobs[j].endpoint)
        IN  /\ jobs' = [jobs EXCEPT ![j] = [@ EXCEPT
                    !.model_id = model_id,
                    !.user_id = <<"anonymous">>,
                    !.garment_id = model_id,
                    !.is_clothing_workflow = IsClothingWorkflow(jobs[j].endpoint),
                    !.is_rig_workflow = is_rig,
                    !.mesh_url = IF is_rig THEN inp.mesh_url ELSE @,
                    !.pc = IF is_rig /\ inp.mesh_url # <<>> THEN "download" ELSE "dispatch"]]
    /\ UNCHANGED <<fs, s3, s3_client, now>>

\* filename chosen by download_mesh_from_url, lines 237-242
DownloadPath(mesh_url, t) ==
    LET base == UrlBaseName(mesh_url)
        filename0 == IF base # <<>> THEN base ELSE <<"mesh_">> \o TimeStr(t) \o <<".glb">>
        filename == IF EndsWith(filename0, ".glb") THEN filename0 ELSE Append(filename0, ".glb")
    IN  PathJoin(InDir, <<"downloaded_">> \o filename)

\* how requests.get / raise_for_status of lines 245-246 may end
DownloadOutcomes == {"ok", "error", "timeout"}

\* lines 252 and 256: the path returned by download_mesh_from_url
DownloadResult(outcome, output_path) == IF outcome = "ok" THEN output_path ELSE <<>>

\* mutant: the optimizer is entered whatever the download returned
AfterDownloadAlwaysOptimize(downloaded_path) == "optimize"

\* mutant: an empty download result ends the job
AfterDownloadTerminal(downloaded_path) ==
    IF downloaded_path # <<>> THEN "optimize" ELSE "done"

\* line 525: "if downloaded_path:" guards the optimizer; otherwise the handler
\* goes on to the POST
AfterDownload(downloaded_path) ==
    IF downloaded_path # <<>> THEN "optimize" ELSE "dispatch"

\* download_mesh_from_url, lines 219-256, and its caller, lines 524-527
DownloadMesh(j) ==
    /\ jobs[j].pc = "download"
    /\ \E outcome \in DownloadOutcomes :
        LET mesh_url == jobs[j].mesh_url
            t == now
            output_path == DownloadPath(mesh_url, t)
            fs1 == MakeDirs(fs, InDir, t)
            downloaded_path == DownloadResult(outcome, output_path)
        IN  /\ fs' = IF outcome = "ok" THEN WriteFile(fs1, output_path, <<"raw">>, t) ELSE fs1
            /\ jobs' = [jobs EXCEPT ![j] = [@ EXCEPT
                    !.download = outcome,
                    !.downloaded_path = downloaded_path,
                    !.optimized_input_path =
                        IF downloaded_path # <<>>
                        THEN Replace(downloaded_path, ".glb", <<"_preopt", ".glb">>) ELSE @,
                    !.calls = Append(@, "download"),
                    !.pc = AfterDownload(downloaded_path)]]
    /\ UNCHANGED <<s3, s3_client, now>>

\* ------------------------------------------------ pre-rig optimizer (259-373)
\* how one gltf-transform call ends: a timeout raises subprocess.TimeoutExpired;
\* otherwise it exits with rc and has or has not written its output file
StageOutcomes ==
    { [timeout |-> FALSE, rc |-> 0, written |-> TRUE],
      [timeout |-> FALSE, rc |-> 1, written |-> FALSE],
      [timeout |-> FALSE, rc |-> 0, written |-> FALSE],
      [timeout |-> TRUE,  rc |-> 0, written |-> FALSE] }

\* subprocess.run(['gltf-transform', tool, src, dst, ...]): the file system afterwards
RunTool(f, tool, src, dst, oc, t) ==
    IF oc.written /\ Exists(f, src)
    THEN WriteFile(f, dst, Append(f[src].content, tool), t)
    ELSE f

\* mutant: the stage test without its "or not os.path.exists(out)" half
StageFailedExitCodeOnly(f, oc, out) == oc.rc # 0

\* the test "result.returncode != 0 or not os.path.exists(out)", lines 305, 329, 349
StageFailed(f, oc, out) == oc.rc # 0 \/ ~Exists(f, out)

Cmd(tool, src, dst, oc) == [tool |-> tool, src |-> src, dst |-> dst, oc |-> oc]

\* optimize_glb_before_rigging, lines 276-291: entry checks and temp-file names
OptStart(j) ==
    /\ jobs[j].pc = "optimize"
    /\ LET input_path == jobs[j].downloaded_path
           output_path == jobs[j].optimized_input_path
           base_dir == DirName(input_path)
           base_name == SplitExtRoot(BaseName(input_path))
       IN  IF input_path = <<>> \/ ~Exists(fs, input_path)
           THEN jobs' = [jobs EXCEPT ![j] = [@ EXCEPT
                    !.optimized_input_path = input_path,
                    !.pc = "set_mesh_url"]]
           ELSE jobs' = [jobs EXCEPT ![j] = [@ EXCEPT
                    !.input_path = input_path,
                    !.output_path = output_path,
                    !.temp_welded = PathJoin(base_dir, base_name \o <<"_welded", ".glb">>),
                    !.temp_simplified = PathJoin(base_dir, base_name \o <<"_simplified", ".glb">>),
                    !.pc = "weld"]]
    /\ UNCHANGED <<fs, s3, s3_client, now>>

\* Step 1, lines 298-307
Weld(j) ==
    /\ jobs[j].pc = "weld"
    /\ \E oc \in StageOutcomes :
        LET J == jobs[j]
            t == now
            fs1 == RunTool(fs, "weld", J.input_path, J.temp_welded, oc, t)
            cmds == Append(J.cmds, Cmd("weld", J.input_path, J.temp_welded, oc))
        IN  /\ fs' = fs1
            /\ jobs' = [jobs EXCEPT ![j] = [@ EXCEPT
                    !.cmds = cmds,
                    !.calls = Append(@, "weld"),
                    !.temp_welded = IF ~oc.timeout /\ StageFailed(fs1, oc, J.temp_welded)
                                    THEN J.input_path ELSE @,
                    !.pc = IF oc.timeout THEN "opt_except" ELSE "simplify"]]
    /\ UNCHANGED <<s3, s3_client, now>>

\* Step 2, lines 317-331
Simplify(j) ==
    /\ jobs[j].pc = "simplify"
    /\ \E oc \in StageOutcomes :
        LET J == jobs[j]
            t == now
            fs1 == RunTool(fs, "simplify", J.temp_welded, J.temp_simplified, oc, t)
            cmds == Append(J.cmds, Cmd("simplify", J.temp_welded, J.temp_simplified, oc))
        IN  /\ fs' = fs1
            /\ jobs' = [jobs EXCEPT ![j] = [@ EXCEPT
                    !.cmds = cmds,
                    !.calls = Append(@, "simplify"),
                    !.temp_simplified = IF ~oc.timeout /\ StageFailed(fs1, oc, J.temp_simplified)
                                        THEN J.temp_welded ELSE @,
                    !.pc = IF oc.timeout THEN "opt_except" ELSE "resize"]]
    /\ UNCHANGED <<s3, s3_client, now>>

\* Step 3, lines 337-351: resize, and on failure shutil.copy2 of the pre-resize file
Resize(j) ==
    /\ jobs[j].pc = "resize"
    /\ \E oc \in StageOutcomes, copy_ok \in BOOLEAN :
        LET J == jobs[j]
            t == now
            fs1 == RunTool(fs, "resize", J.temp_simplified, J.output_path, oc, t)
            cmds == Append(J.cmds, Cmd("resize", J.temp_simplified, J.output_path, oc))
            failed == ~oc.timeout /\ StageFailed(fs1, oc, J.output_path)
            copied == failed /\ copy_ok /\ Exists(fs1, J.temp_simplified)
        IN  /\ (~failed => copy_ok)
            /\ fs' = IF copied THEN CopyFile(fs1, J.temp_simplified, J.output_path) ELSE fs1
            /\ jobs' = [jobs EXCEPT ![j] = [@ EXCEPT
                    !.cmds = cmds,
                    !.calls = Append(@, "resize"),
                    !.pc = IF oc.timeout \/ (failed /\ ~copied)
                           THEN "opt_except" ELSE "opt_cleanup"]]
    /\ UNCHANGED <<s3, s3_client, now>>

\* the files removed by the loop of lines 358-363
TempsToRemove(f, J) ==
    { p \in {J.temp_welded, J.temp_simplified} :
        p # J.input_path /\ p # J.output_path /\ Exists(f, p) }

RemoveAll(f, paths) == [p \in (DOMAIN f) \ paths |-> f[p]]

\* lines 353-365: os.path.getsize(output_path), cleanup of temp files, return output_path
OptCleanup(j) ==
    /\ jobs[j].pc = "opt_cleanup"
    /\ LET J == jobs[j]
       IN  IF ~Exists(fs, J.output_path)
           THEN /\ jobs' = Set1(j, "pc", "opt_except")
                /\ fs' = fs
           ELSE /\ fs' = RemoveAll(fs, TempsToRemove(fs, J))
                /\ jobs' = [jobs EXCEPT ![j] = [@ EXCEPT
                        !.optimized_input_path = J.output_path,
                        !.pc = "set_mesh_url"]]
    /\ UNCHANGED <<s3, s3_client, now>>

\* the except clause, lines 367-373: copy the original to the output path; a failure
\* of this copy is raised to the caller of handler
OptExcept(j) ==
    /\ jobs[j].pc = "opt_except"
    /\ \E copy_ok \in BOOLEAN :
        LET J == jobs[j]
        IN  IF J.input_path # J.output_path /\ J.output_path # <<>>
            THEN IF copy_ok /\ Exists(fs, J.input_path)
                 THEN /\ fs' = CopyFile(fs, J.input_path, J.output_path)
                      /\ jobs' = [jobs EXCEPT ![j] = [@ EXCEPT
                              !.optimized_input_path = J.output_path,
                              !.calls = Append(@, "fallback_copy"),
                              !.pc = "set_mesh_url"]]
                 ELSE /\ fs' = fs
                      /\ jobs' = [jobs EXCEPT ![j] = [@ EXCEPT
                              !.calls = Append(@, "fallback_copy"),
                              !.pc = "raised"]]
            ELSE /\ copy_ok
                 /\ fs' = fs
                 /\ jobs' = [jobs EXCEPT ![j] = [@ EXCEPT
                         !.optimized_input_path = J.input_path,
                         !.pc = "set_mesh_url"]]
    /\ UNCHANGED <<s3, s3_client, now>>

\* handler, lines 528-533: the optimizer has returned; its frame is gone and
\* body["input"]["mesh_url"] becomes the returned local path
SetMeshUrl(j) ==
    /\ jobs[j].pc = "set_mesh_url"
    /\ jobs' = [jobs EXCEPT ![j] = [@ EXCEPT
            !.body = [input |-> [@.input EXCEPT !.mesh_url = jobs[j].optimized_input_path]],
            !.input_path = <<>>, !.output_path = <<>>,
            !.temp_welded = <<>>, !.temp_simplified = <<>>, !.cmds = <<>>,
            !.pc = "dispatch"]]
    /\ UNCHANGED <<fs, s3, s3_client, now>>

\* one invocation sitting right after a successful download
OptJob(url, name) ==
    [IdleJob EXCEPT
        !.pc = "optimize",
        !.endpoint = <<"/workflow/", "rig-avatar">>,
        !.body = [input |-> [mesh_url |-> url, output_name |-> name]],
        !.model_id = name, !.garment_id = name, !.user_id = <<"anonymous">>,
        !.is_rig_workflow = TRUE,
        !.mesh_url = url, !.download = "ok",
        !.downloaded_path = DownloadPath(url, 0),
        !.optimized_input_path = Replace(DownloadPath(url, 0), ".glb", <<"_preopt", ".glb">>),
        !.calls = <<"download">>]

InitOptimize ==
    /\ \E url \in MeshUrls \ {<<>>} :
        /\ jobs = [j \in Jobs |-> IF j = "j1" THEN OptJob(url, <<"m", "1">>) ELSE IdleJob]
        /\ fs = WriteFile(MakeDirs(<<>>, InDir, 0), DownloadPath(url, 0), <<"raw">>, 0)
    /\ s3 = <<>>
    /\ s3_client = "none"
    /\ now = 0

NextOptimize ==
    \E j \in Jobs :
        \/ OptStart(j)
        \/ Weld(j)
        \/ Simplify(j)
        \/ Resize(j)
        \/ OptCleanup(j)
        \/ OptExcept(j)

SpecOptimize == InitOptimize /\ [][NextOptimize]_vars

\* ------------------------------------------------ artifact locator (170-216)
\* the entries of a directory, as os.listdir and glob see them
DirEntries(f, dir) == { p \in DOMAIN f : Len(p) > 1 /\ p[1] = dir }

\* the orders in which a directory listing may come back
Listings(S) ==
    { l \in [1..Cardinality(S) -> S] : \A a, b \in 1..Cardinality(S) : l[a] = l[b] => a = b }

\* mutant: keep the first match of an extension instead of overwriting it
ScanStepFirstWins(acc, f, path, model_id) ==
    IF f[path].kind # "file" THEN acc
    ELSE IF ~IsSubstr(model_id, BaseName(path)) THEN acc
    ELSE IF EndsWith(path, ".glb") THEN (IF acc.glb = <<>> THEN [acc EXCEPT !.glb = path] ELSE acc)
    ELSE IF EndsWith(path, ".fbx") THEN (IF acc.fbx = <<>> THEN [acc EXCEPT !.fbx = path] ELSE acc)
    ELSE acc

\* one iteration of the loop of lines 189-201
ScanStep(acc, f, path, model_id) ==
    IF f[path].kind # "file" THEN acc
    ELSE IF ~IsSubstr(model_id, BaseName(path)) THEN acc
    ELSE IF EndsWith(path, ".glb") THEN [acc EXCEPT !.glb = path]
    ELSE IF EndsWith(path, ".fbx") THEN [acc EXCEPT !.fbx = path]
    ELSE acc

RECURSIVE Scan(_, _, _, _, _)
\* the loop of lines 189-201 over listing[i..], starting from acc
Scan(acc, f, listing, i, model_id) ==
    IF i > Len(listing) THEN acc
    ELSE Scan(ScanStep(acc, f, listing[i], model_id), f, listing, i + 1, model_id)

\* glob.glob(os.path.join(output_dir, "*" + ext)), in listing order; glob does not
\* test os.path.isfile
Glob(listing, ext) == SelectSeq(listing, LAMBDA p : EndsWith(p, ext))

\* mutant: the oldest file instead of the most recent
NewestFirstOldest(f, g) ==
    IF g = <<>> THEN <<>>
    ELSE g[CHOOSE i \in 1..Len(g) :
            /\ \A k \in 1..Len(g) : f[g[k]].mtime >= f[g[i]].mtime
            /\ \A k \in 1..(i - 1) : f[g[k]].mtime > f[g[i]].mtime]

\* sorted(g, key=os.path.getmtime, reverse=True)[0]: the sort is stable, so among
\* the files of the greatest mtime the first of g is taken
NewestFirst(f, g) ==
    IF g = <<>> THEN <<>>
    ELSE g[CHOOSE i \in 1..Len(g) :
            /\ \A k \in 1..Len(g) : f[g[k]].mtime <= f[g[i]].mtime
            /\ \A k \in 1..(i - 1) : f[g[k]].mtime < f[g[i]].mtime]

\* find_output_files(model_id), lines 181-216, for a directory listed as listing
find_output_files(f, model_id, listing) ==
    IF ~Exists(f, <<OutDir>>) THEN [glb |-> <<>>, fbx |-> <<>>]
    ELSE LET m == Scan([glb |-> <<>>, fbx |-> <<>>], f, listing, 1, model_id)
         IN  [glb |-> IF m.glb = <<>> THEN NewestFirst(f, Glob(listing, ".glb")) ELSE m.glb,
              fbx |-> IF m.fbx = <<>> THEN NewestFirst(f, Glob(listing, ".fbx")) ELSE m.fbx]

\* handler line 594: glb_path, fbx_path = find_output_files(model_id)
FindOutputFiles(j) ==
    /\ jobs[j].pc = "locate"
    /\ \E listing \in Listings(DirEntries(fs, OutDir)) :
        LET r == find_output_files(fs, jobs[j].model_id, listing)
        IN  jobs' = [jobs EXCEPT ![j] = [@ EXCEPT
                !.listing = listing,
                !.glb_path = r.glb,
                !.fbx_path = r.fbx,
                !.calls = Append(@, "locate"),
                !.pc = IF r.glb # <<>> THEN "compress"
                       ELSE IF r.fbx # <<>> THEN "put_fbx" ELSE "set_rig_fields"]]
    /\ UNCHANGED <<fs, s3, s3_client, now>>

\* file names the output directory may hold in the locator specification
OutNames == {
    <<"m", "1", ".glb">>, <<"m", "1", "_final", ".glb">>, <<"m", "1", "0", ".fbx">>,
    <<"m", "1", ".fbx">>, <<"old", ".glb">>, <<"other", ".glb">>, <<"other", ".fbx">> }

\* the file systems of the locator specification: no output directory, or one
\* holding at most MaxDirEntries regular files or sub-directories
OutputDirs ==
    { <<>> } \cup
    UNION { [ {<<OutDir>>} \cup { PathJoin(OutDir, n) : n \in N } ->
                { File(<<"rigged">>, t) : t \in 0..MaxTime } \cup { Directory(t) : t \in 0..MaxTime } ]
            : N \in { X \in SUBSET OutNames : Cardinality(X) <= MaxDirEntries } }

\* one rig-avatar invocation about to locate its outputs
LocateJob(name) ==
    [IdleJob EXCEPT
        !.pc = "locate",
        !.endpoint = <<"/workflow/", "rig-avatar">>,
        !.body = [input |-> [mesh_url |-> <<>>, output_name |-> name]],
        !.model_id = name, !.garment_id = name, !.user_id = <<"anonymous">>,
        !.is_rig_workflow = TRUE,
        !.calls = <<"post">>]

InitLocate ==
    /\ jobs = [j \in Jobs |-> IF j = "j1" THEN LocateJob(<<"m", "1">>) ELSE IdleJob]
    /\ fs \in { f \in OutputDirs : f = <<>> \/ f[<<OutDir>>] = Directory(0) }
    /\ s3 = <<>>
    /\ s3_client = "none"
    /\ now = MaxTime

NextLocate == \E j \in Jobs : FindOutputFiles(j)

SpecLocate == InitLocate /\ [][NextLocate]_vars

\* ------------------------------------------------------------ JSON values
\* A JSON value is tagged: None, a string (a path or identifier as tokens), a
\* string holding a textures_json payload, a list, a dict (its items in
\* insertion order) and the list of uploaded textures.
None == [t |-> "none"]
Str(x) == [t |-> "str", s |-> x]
Tj(text, items) == [t |-> "tj", text |-> text, items |-> items]
List(v) == [t |-> "list", v |-> v]
Dict(kv) == [t |-> "dict", kv |-> kv]
Urls(v) == [t |-> "urls", v |-> v]
KV(k, v) == [k |-> k, v |-> v]

\* k in d
Has(d, k) == \E i \in 1..Len(d.kv) : d.kv[i].k = k
\* d[k]
Get(d, k) == d.kv[CHOOSE i \in 1..Len(d.kv) : d.kv[i].k = k].v
\* d[k] = v
Put(d, k, v) ==
    IF Has(d, k)
    THEN Dict([i \in 1..Len(d.kv) |-> IF d.kv[i].k = k THEN KV(k, v) ELSE d.kv[i]])
    ELSE Dict(Append(d.kv, KV(k, v)))
\* del d[k] / d.pop(k, None)
Del(d, k) == Dict(SelectSeq(d.kv, LAMBDA e : e.k # k))

\* bool(v)
Truthy(v) ==
    CASE v.t = "none" -> FALSE
      [] v.t = "str" -> v.s # <<>>
      [] v.t = "tj" -> v.text # ""
      [] v.t = "list" -> v.v # <<>>
      [] v.t = "urls" -> v.v # <<>>
      [] v.t = "dict" -> v.kv # <<>>

\* v == '[]'
IsEmptyArrayLiteral(v) == v.t = "tj" /\ v.text = "[]"

\* ------------------------------------------------- rendering-service replies
\* Texture Records a payload may hold: data_base64 is "" (absent), "b64"
\* (decodable) or "bad" (base64.b64decode raises)
TexturePool == <<
    [name |-> "baseColor", type |-> "baseColor", data_base64 |-> "b64"],
    [name |-> "normal",    type |-> "normal",    data_base64 |-> ""],
    [name |-> "rough",     type |-> "unknown",   data_base64 |-> "bad"],
    [name |-> "emissive",  type |-> "emissive",  data_base64 |-> "b64"] >>

RECURSIVE Pick(_, _, _)
\* the sub-sequence of seq[i..] at the positions in I
Pick(seq, I, i) ==
    IF i > Len(seq) THEN <<>>
    ELSE (IF i \in I THEN <<seq[i]>> ELSE <<>>) \o Pick(seq, I, i + 1)

\* the non-empty sub-sequences of the pool of at most MaxTextures records
TextureLists ==
    { Pick(TexturePool, I, 1)
      : I \in { X \in SUBSET (1..Len(TexturePool)) : X # {} /\ Cardinality(X) <= MaxTextures } }

\* textures_json strings: "", "[]", "[ ]", text that is no JSON, and serialized lists
Payloads ==
    { Tj("", <<>>), Tj("[]", <<>>), Tj("[ ]", <<>>), Tj("bad", <<>>) }
    \cup { Tj("arr", l) : l \in TextureLists }

FbxName(name) == Str(name \o <<".fbx">>)
GlbName(name) == Str(name \o <<".glb">>)

GarmentPath == PathJoin(OutDir, <<"garment", ".glb">>)
CombinedPath == PathJoin(OutDir, <<"combined", ".glb">>)

\* the three shapes of section 3 carrying payload P, and a reply carrying it in
\* all three places
TextureReplies(name) ==
    UNION { { Dict(<<KV("textures_json", P)>>),
              Dict(<<KV("outputs", Dict(<<KV("9", Dict(<<KV("textures_json", P)>>))>>))>>),
              Dict(<<KV("outputs", Dict(<<KV("9", List(<<FbxName(name), GlbName(name), P>>))>>))>>),
              Dict(<<KV("textures_json", P),
                     KV("outputs", Dict(<<KV("7", Dict(<<KV("textures_json", P)>>)),
                                          KV("9", List(<<FbxName(name), GlbName(name), P>>))>>))>>) }
            : P \in Payloads }

\* replies whose places hold different payloads, or a place that matches a shape
\* without holding textures: they tell which place the handler reads
ProbeOrderReplies(name) ==
    LET P1 == Tj("arr", <<TexturePool[1]>>)
        P2 == Tj("arr", <<TexturePool[4]>>)
    IN  { Dict(<<KV("textures_json", P1),
                 KV("outputs", Dict(<<KV("7", Dict(<<KV("textures_json", P2)>>))>>))>>),
          Dict(<<KV("textures_json", Tj("[]", <<>>)),
                 KV("outputs", Dict(<<KV("7", Dict(<<KV("textures_json", P2)>>))>>))>>),
          Dict(<<KV("outputs", Dict(<<KV("7", Dict(<<KV("textures_json", P1)>>)),
                                      KV("9", List(<<FbxName(name), GlbName(name), P2>>))>>))>>),
          Dict(<<KV("outputs", Dict(<<KV("7", List(<<FbxName(name), GlbName(name), P2>>)),
                                      KV("9", Dict(<<KV("textures_json", P1)>>))>>))>>),
          Dict(<<KV("outputs", Dict(<<KV("5", List(<<Str(GarmentPath)>>)),
                                      KV("9", Dict(<<KV("textures_json", P1)>>))>>))>>) }

\* replies of the clothing nodes, and replies without any recognised field
OtherReplies ==
    { Dict(<<>>),
      Dict(<<KV("outputs", List(<<Str(GarmentPath)>>))>>),
      Dict(<<KV("outputs", Dict(<<KV("5", List(<<Str(GarmentPath)>>)),
                                  KV("6", List(<<Str(CombinedPath)>>))>>))>>),
      Dict(<<KV("outputs", Dict(<<KV("5", Dict(<<KV("rigged_garment_path", Str(GarmentPath))>>)),
                                  KV("6", Dict(<<KV("combined_path", Str(CombinedPath))>>))>>))>>) }

\* JSON bodies that are no object
NonObjectReplies == { List(<<Str(<<"queued">>)>>) }

\* ----------------------------------------------------------- result envelope
\* mutant: the error envelope also carries a response
ErrorEnvelopeWithResponse(msg) == [status |-> "error", error |-> msg, response |-> None]

\* lines 664-667
ErrorEnvelope(msg) == [status |-> "error", error |-> msg]

\* lines 540-543 and 658-662
SuccessEnvelope(status_code, response) ==
    [status |-> "success", status_code |-> status_code, response |-> response]

\* ----------------------------------------------------------- texture probing
RECURSIVE ProbeOutputsLastWins(_, _)
\* mutant: the loop has no break, so the last matching entry is used
ProbeOutputsLastWins(kv, i) ==
    IF i > Len(kv) THEN None
    ELSE LET node_output == kv[i].v
             rest == ProbeOutputsLastWins(kv, i + 1)
         IN  IF rest # None THEN rest
             ELSE IF node_output.t = "dict" /\ Has(node_output, "textures_json")
             THEN Get(node_output, "textures_json")
             ELSE IF node_output.t = "list" /\ Len(node_output.v) >= 3
             THEN node_output.v[3]
             ELSE None

RECURSIVE ProbeOutputs(_, _)
\* the loop of lines 562-569 over the items kv[i..] of outputs
ProbeOutputs(kv, i) ==
    IF i > Len(kv) THEN None
    ELSE LET node_output == kv[i].v
         IN  IF node_output.t = "dict" /\ Has(node_output, "textures_json")
             THEN Get(node_output, "textures_json")
             ELSE IF node_output.t = "list" /\ Len(node_output.v) >= 3
             THEN node_output.v[3]
             ELSE ProbeOutputs(kv, i + 1)

\* mutant: only the flat shape is probed
ProbeTexturesFlatOnly(api_response) ==
    IF api_response.t # "dict" THEN None
    ELSE IF Has(api_response, "textures_json") THEN Get(api_response, "textures_json")
    ELSE None

\* lines 551-569: the textures_json the handler finds in api_response
ProbeTextures(api_response) ==
    IF api_response.t # "dict" THEN None
    ELSE IF Has(api_response, "textures_json") THEN Get(api_response, "textures_json")
    ELSE IF Has(api_response, "outputs") /\ Get(api_response, "outputs").t = "dict"
    THEN ProbeOutputs(Get(api_response, "outputs").kv, 1)
    ELSE None

\* where the handler goes once textures are reconciled, lines 590 and 625
AfterTextures(J) ==
    IF J.is_rig_workflow THEN "locate"
    ELSE IF J.is_clothing_workflow /\ J.api_response.t = "dict" THEN "clothing"
    ELSE "return"

\* where the handler goes once the rig branch is done, line 625
AfterRig(J) ==
    IF J.is_clothing_workflow /\ J.api_response.t = "dict" THEN "clothing" ELSE "return"

\* mutant: the except clauses fall through to the artifact pipeline
OnPostFailureFallThrough(J, outcome, msg) ==
    [J EXCEPT !.post = outcome, !.sent = J.body, !.calls = Append(@, "post"),
              !.result = ErrorEnvelope(msg), !.pc = "locate"]

\* lines 664-667: requests.post timed out or raised
OnPostFailure(J, outcome, msg) ==
    [J EXCEPT !.post = outcome, !.sent = J.body, !.calls = Append(@, "post"),
              !.result = ErrorEnvelope(msg), !.pc = "done"]

\* mutant: a text reply is handed to the reconciler like a JSON reply
OnTextReplyReconciles(J) ==
    [J EXCEPT !.post = "reply", !.sent = J.body, !.calls = Append(@, "post"),
              !.reply = [t |-> "text"],
              !.pc = IF J.is_rig_workflow THEN "locate" ELSE "return"]

\* lines 546 and 659-662: a reply whose content-type is not application/json
OnTextReply(J) ==
    [J EXCEPT !.post = "reply", !.sent = J.body, !.calls = Append(@, "post"),
              !.reply = [t |-> "text"],
              !.result = SuccessEnvelope(200, [t |-> "text"]),
              !.pc = "done"]

\* the files the rendering service may leave in the output directory for a job:
\* named after output_name when the body carries one
ServiceOutputs(J) ==
    LET name == IF J.body.input.output_name = Absent
                THEN <<"ComfyUI_", "00001">> ELSE J.body.input.output_name
    IN  IF J.is_rig_workflow
        THEN SUBSET { PathJoin(OutDir, name \o <<".glb">>), PathJoin(OutDir, name \o <<".fbx">>) }
        ELSE IF J.is_clothing_workflow
        THEN { {}, {GarmentPath, CombinedPath} }
        ELSE { {} }

WriteAll(f, paths, content, t) ==
    [p \in (DOMAIN f) \cup paths |-> IF p \in paths THEN File(content, t) ELSE f[p]]

\* the JSON objects the rendering service may answer a job with
Replies(J) ==
    LET name == IF J.body.input.output_name = Absent
                THEN <<"ComfyUI_", "00001">> ELSE J.body.input.output_name
    IN  TextureReplies(name) \cup ProbeOrderReplies(name) \cup OtherReplies

\* lines 536-573: POST to the comfyui-api, content-type branching, response.json(),
\* texture probing; replies is the set of JSON bodies the service may answer with
DispatchWith(j, replies) ==
    /\ jobs[j].pc = "dispatch"
    /\ LET J == jobs[j]
       IN  \/ /\ jobs' = [jobs EXCEPT ![j] =
                        OnPostFailure(J, "timeout", "Request timed out after 300 seconds")]
              /\ fs' = fs
           \/ /\ jobs' = [jobs EXCEPT ![j] = OnPostFailure(J, "error", "connection error")]
              /\ fs' = fs
           \/ \E outs \in ServiceOutputs(J) :
                /\ Exists(fs, <<OutDir>>) \/ outs = {}
                /\ fs' = WriteAll(fs, outs, <<"rigged">>, now)
                /\ \/ jobs' = [jobs EXCEPT ![j] = [OnTextReply(J) EXCEPT !.outs = outs]]
                   \/ jobs' = [jobs EXCEPT ![j] = [J EXCEPT
                            !.post = "reply", !.sent = J.body, !.calls = Append(@, "post"),
                            !.outs = outs,
                            !.reply = [t |-> "invalid"],
                            !.result = ErrorEnvelope("json decode error"),
                            !.pc = "done"]]
                   \/ \E r \in replies :
                        LET tj == ProbeTextures(r)
                            J1 == [J EXCEPT !.post = "reply", !.sent = J.body,
                                            !.calls = Append(@, "post"),
                                            !.outs = outs,
                                            !.reply = r, !.api_response = r,
                                            !.textures_json = tj]
                        IN  jobs' = [jobs EXCEPT ![j] = [J1 EXCEPT
                                !.pc = IF Truthy(tj) /\ ~IsEmptyArrayLiteral(tj)
                                       THEN "upload_textures" ELSE AfterTextures(J1)]]
    /\ UNCHANGED <<s3, s3_client, now>>

\* the POST of one invocation, answered with any reply of the model
Dispatch(j) == DispatchWith(j, Replies(jobs[j]) \cup NonObjectReplies)

\* the POST of one invocation, answered with a JSON object that carries no
\* textures and no outputs
DispatchPlain(j) == DispatchWith(j, {Dict(<<>>)})

\* ------------------------------------------------------------ S3 uploads
Bucket == "https://endure-media.s3.us-west-1.amazonaws.com/"

\* line 93
TextureKey(model_id, name) == <<"avatar-textures/">> \o model_id \o <<"/", name, ".png">>
\* line 142
RiggedKey(model_id, file_type) == <<"avatars/rigged/">> \o model_id \o <<".", file_type>>
\* line 441
ClothingKey(user_id, garment_id) ==
    <<"avatars/">> \o user_id \o <<"/clothing/">> \o garment_id \o <<".glb">>
\* lines 104, 160, 456
S3Url(key) == <<Bucket>> \o key

\* client.put_object(Bucket, Key, Body, ContentType) that succeeded
PutObject(b, key, body, content_type) ==
    [k \in (DOMAIN b) \cup {key} |->
        IF k = key THEN [body |-> body, content_type |-> content_type] ELSE b[k]]

\* json.loads(textures_json), lines 68-72: the list, or a JSONDecodeError
JsonLoads(v) ==
    IF v.t = "tj" /\ v.text = "arr" THEN [ok |-> TRUE, v |-> v.items]
    ELSE IF v.t = "tj" /\ v.text = "[ ]" THEN [ok |-> TRUE, v |-> <<>>]
    ELSE [ok |-> FALSE, v |-> <<>>]

\* upload_textures_to_s3, lines 65-78, called from line 575: early returns, then
\* get_s3_client(), whose failure is not caught here and reaches handler's except
UploadTexturesBegin(j) ==
    /\ jobs[j].pc = "upload_textures"
    /\ LET J == jobs[j]
           tj == J.textures_json
           parsed == JsonLoads(tj)
       IN  IF ~Truthy(tj) \/ IsEmptyArrayLiteral(tj) \/ ~parsed.ok \/ parsed.v = <<>>
           THEN /\ jobs' = [jobs EXCEPT ![j] = [J EXCEPT
                        !.calls = Append(@, "upload_textures"),
                        !.tex_log = <<>>,
                        !.texture_urls = <<>>, !.pc = "rewrite"]]
                /\ s3_client' = s3_client
           ELSE \/ /\ s3_client' = "client"
                   /\ jobs' = [jobs EXCEPT ![j] = [J EXCEPT
                        !.textures = parsed.v, !.tex_i = 1, !.uploaded = <<>>,
                        !.tex_log = <<>>,
                        !.calls = @ \o <<"upload_textures", "client">>,
                        !.pc = "tex_loop"]]
                \/ /\ s3_client = "none"
                   /\ s3_client' = s3_client
                   /\ jobs' = [jobs EXCEPT ![j] = [J EXCEPT
                        !.calls = @ \o <<"upload_textures", "client">>,
                        !.tex_log = <<>>,
                        !.result = ErrorEnvelope("could not create s3 client"),
                        !.pc = "done"]]
    /\ UNCHANGED <<fs, s3, now>>

\* line 86: "if not data_b64: continue"
NoData(texture) == texture.data_base64 = ""

\* line 90: base64.b64decode(data_b64) raises
DecodeFails(texture) == texture.data_base64 = "bad"

\* mutant: a record that fails ends the loop
NextTextureAbortOnFailure(i, n, failed) == IF failed THEN n + 1 ELSE i + 1

\* lines 80 and 116-117: the except clause is inside the loop body, so the loop
\* goes on with the next record whether or not this one failed
NextTexture(i, n, failed) == i + 1

\* lines 106-112: the Uploaded Texture of a record
UploadedTexture(texture, s3_key) ==
    [name |-> texture.name, type |-> texture.type, url |-> S3Url(s3_key)]

\* one iteration of the loop of lines 80-117, and the return of line 119
UploadTexture(j) ==
    /\ jobs[j].pc = "tex_loop"
    /\ LET J == jobs[j]
           n == Len(J.textures)
       IN  IF J.tex_i > n
           THEN /\ jobs' = [jobs EXCEPT ![j] = [J EXCEPT
                        !.texture_urls = J.uploaded,
                        !.textures = <<>>, !.tex_i = 0, !.uploaded = <<>>,
                        !.pc = "rewrite"]]
                /\ s3' = s3
           ELSE LET texture == J.textures[J.tex_i]
                    s3_key == TextureKey(J.model_id, texture.name)
                IN  IF NoData(texture)
                    THEN /\ jobs' = [jobs EXCEPT ![j] = [J EXCEPT
                                !.tex_i = NextTexture(@, n, FALSE),
                                !.tex_log = Append(@, "skip")]]
                         /\ s3' = s3
                    ELSE IF DecodeFails(texture)
                    THEN /\ jobs' = [jobs EXCEPT ![j] = [J EXCEPT
                                !.tex_i = NextTexture(@, n, TRUE),
                                !.tex_log = Append(@, "decode")]]
                         /\ s3' = s3
                    ELSE \/ /\ s3' = PutObject(s3, s3_key, <<texture.name>>, "image/png")
                            /\ jobs' = [jobs EXCEPT ![j] = [J EXCEPT
                                    !.tex_i = NextTexture(@, n, FALSE),
                                    !.tex_log = Append(@, "ok"),
                                    !.calls = Append(@, "put_texture"),
                                    !.uploaded = Append(@, UploadedTexture(texture, s3_key))]]
                         \/ /\ s3' = s3
                            /\ jobs' = [jobs EXCEPT ![j] = [J EXCEPT
                                    !.tex_i = NextTexture(@, n, TRUE),
                                    !.tex_log = Append(@, "put"),
                                    !.calls = Append(@, "put_texture")]]
    /\ UNCHANGED <<fs, s3_client, now>>

\* one invocation about to call upload_textures_to_s3(textures_json, model_id)
TexturesJob(P, name) ==
    [IdleJob EXCEPT
        !.pc = "upload_textures",
        !.endpoint = <<"/prompt">>,
        !.body = [input |-> [mesh_url |-> <<>>, output_name |-> name]],
        !.model_id = name, !.garment_id = name, !.user_id = <<"anonymous">>,
        !.post = "reply",
        !.reply = Dict(<<KV("textures_json", P)>>),
        !.api_response = Dict(<<KV("textures_json", P)>>),
        !.textures_json = P,
        !.calls = <<"post">>]

\* upload_textures_to_s3 applied to every payload, for a given and for a synthetic
\* model identifier, with and without a storage client created by an earlier
\* invocation
InitTextures ==
    /\ \E P \in Payloads, name \in { <<"m", "1">>, <<"model_">> \o TimeStr(0) } :
        jobs = [j \in Jobs |-> IF j = "j1" THEN TexturesJob(P, name) ELSE IdleJob]
    /\ fs = MakeDirs(<<>>, OutDir, 0)
    /\ s3 = <<>>
    /\ s3_client \in {"none", "client"}
    /\ now = 0

NextTextures == \E j \in Jobs : UploadTexturesBegin(j) \/ UploadTexture(j)

SpecTextures == InitTextures /\ [][NextTextures]_vars

\* lines 586-587: pop textures_json from every dict entry of outputs
StripOutputs(outputs) ==
    Dict([i \in 1..Len(outputs.kv) |->
            IF outputs.kv[i].v.t = "dict"
            THEN KV(outputs.kv[i].k, Del(outputs.kv[i].v, "textures_json"))
            ELSE outputs.kv[i]])

\* lines 578-587: add texture_urls and remove the base64 payload
RewriteResponse(api_response, texture_urls) ==
    IF texture_urls = <<>> \/ api_response.t # "dict" THEN api_response
    ELSE LET r1 == Put(api_response, "texture_urls", Urls(texture_urls))
             r2 == Del(r1, "textures_json")
         IN  IF Has(r2, "outputs") /\ Get(r2, "outputs").t = "dict"
             THEN Put(r2, "outputs", StripOutputs(Get(r2, "outputs")))
             ELSE r2

\* handler lines 577-587
Rewrite(j) ==
    /\ jobs[j].pc = "rewrite"
    /\ LET J == jobs[j]
       IN  jobs' = [jobs EXCEPT ![j] = [J EXCEPT
                !.api_response = RewriteResponse(J.api_response, J.texture_urls),
                !.pc = AfterTextures(J)]]
    /\ UNCHANGED <<fs, s3, s3_client, now>>

\* ----------------------------------------------- post-rig compressor (376-412)
\* compress_rigged_glb(glb_path), called from line 603: a pass-through copy to
\* <name>_final.glb; a missing input or a failed copy returns the input path
Compress(j) ==
    /\ jobs[j].pc = "compress"
    /\ \E copy_ok \in BOOLEAN :
        LET J == jobs[j]
            input_path == J.glb_path
            output_path == Replace(input_path, ".glb", <<"_final", ".glb">>)
        IN  IF input_path = <<>> \/ ~Exists(fs, input_path)
            THEN /\ copy_ok
                 /\ fs' = fs
                 /\ jobs' = [jobs EXCEPT ![j] = [J EXCEPT
                        !.compressed_glb = input_path,
                        !.calls = Append(@, "compress"), !.pc = "put_glb"]]
            ELSE IF copy_ok /\ fs[input_path].kind = "file"
            THEN /\ fs' = CopyFile(fs, input_path, output_path)
                 /\ jobs' = [jobs EXCEPT ![j] = [J EXCEPT
                        !.compressed_glb = output_path,
                        !.calls = Append(@, "compress"), !.pc = "put_glb"]]
            ELSE /\ fs' = fs
                 /\ jobs' = [jobs EXCEPT ![j] = [J EXCEPT
                        !.compressed_glb = input_path,
                        !.calls = Append(@, "compress"), !.pc = "put_glb"]]
    /\ UNCHANGED <<s3, s3_client, now>>

\* how an upload of a local file may end: "missing" (no file, nothing attempted),
\* "client" (get_s3_client raised), "read" (open raised), "put" (put_object
\* raised), "ok"
UploadOutcomes(f, client, local_path) ==
    IF local_path = <<>> \/ ~Exists(f, local_path) THEN {"missing"}
    ELSE (IF client = "none" THEN {"client"} ELSE {})
         \cup (IF f[local_path].kind = "file" THEN {"put", "ok"} ELSE {"read"})

\* the module-level singleton after get_s3_client(), lines 28-37
ClientAfter(client, outcome) ==
    IF outcome \in {"missing", "client"} THEN client ELSE "client"

\* upload_rigged_model_to_s3, lines 134-167: the URL returned
RiggedUrl(model_id, file_type, outcome) ==
    IF outcome = "ok" THEN S3Url(RiggedKey(model_id, file_type)) ELSE <<>>

\* upload_rigged_model_to_s3, lines 142-157: the bucket afterwards
RiggedPutBucket(b, f, local_path, model_id, file_type, outcome) ==
    IF outcome = "ok"
    THEN PutObject(b, RiggedKey(model_id, file_type), f[local_path].content,
                   IF file_type = "glb" THEN "model/gltf-binary" ELSE "application/octet-stream")
    ELSE b

\* one call of an upload function: which artifact, which local file, how it ended
Upload(kind, path, outcome) == [kind |-> kind, path |-> path, outcome |-> outcome]

\* mutant: the located file is uploaded, not what the compressor returned
GlbToUploadLocated(J) == J.glb_path

\* line 604: the first argument of the GLB upload
GlbToUpload(J) == J.compressed_glb

\* line 604: glb_url = upload_rigged_model_to_s3(compressed_glb, model_id, "glb")
PutGlb(j) ==
    /\ jobs[j].pc = "put_glb"
    /\ \E outcome \in UploadOutcomes(fs, s3_client, GlbToUpload(jobs[j])) :
        LET J == jobs[j]
        IN  /\ s3' = RiggedPutBucket(s3, fs, GlbToUpload(J), J.model_id, "glb", outcome)
            /\ s3_client' = ClientAfter(s3_client, outcome)
            /\ jobs' = [jobs EXCEPT ![j] = [J EXCEPT
                    !.glb_url = RiggedUrl(J.model_id, "glb", outcome),
                    !.uploads = Append(@, Upload("glb", GlbToUpload(J), outcome)),
                    !.calls = IF outcome \in {"put", "ok"} THEN Append(@, "put_glb") ELSE @,
                    !.pc = "cleanup"]]
    /\ UNCHANGED <<fs, now>>

\* lines 606-611: remove the pre-optimized input; a failing os.remove is swallowed
Cleanup(j) ==
    /\ jobs[j].pc = "cleanup"
    /\ \E removed \in BOOLEAN :
        LET J == jobs[j]
            there == J.optimized_input_path # <<>> /\ Exists(fs, J.optimized_input_path)
        IN  /\ removed => there
            /\ fs' = IF removed THEN RemoveFile(fs, J.optimized_input_path) ELSE fs
            /\ jobs' = [jobs EXCEPT ![j] = [J EXCEPT
                    !.calls = IF there THEN Append(@, "remove") ELSE @,
                    !.pc = IF J.fbx_path # <<>> THEN "put_fbx" ELSE "set_rig_fields"]]
    /\ UNCHANGED <<s3, s3_client, now>>

\* lines 613-614: fbx_url = upload_rigged_model_to_s3(fbx_path, model_id, "fbx")
PutFbx(j) ==
    /\ jobs[j].pc = "put_fbx"
    /\ \E outcome \in UploadOutcomes(fs, s3_client, jobs[j].fbx_path) :
        LET J == jobs[j]
        IN  /\ s3' = RiggedPutBucket(s3, fs, J.fbx_path, J.model_id, "fbx", outcome)
            /\ s3_client' = ClientAfter(s3_client, outcome)
            /\ jobs' = [jobs EXCEPT ![j] = [J EXCEPT
                    !.fbx_url = RiggedUrl(J.model_id, "fbx", outcome),
                    !.uploads = Append(@, Upload("fbx", J.fbx_path, outcome)),
                    !.calls = IF outcome \in {"put", "ok"} THEN Append(@, "put_fbx") ELSE @,
                    !.pc = "set_rig_fields"]]
    /\ UNCHANGED <<fs, now>>

\* lines 618-620
SetRigFields(j) ==
    /\ jobs[j].pc = "set_rig_fields"
    /\ LET J == jobs[j]
       IN  jobs' = [jobs EXCEPT ![j] = [J EXCEPT
                !.api_response = IF J.api_response.t = "dict"
                                 THEN Put(Put(@, "glb_output_path", Str(J.glb_url)),
                                          "fbx_output_path", Str(J.fbx_url))
                                 ELSE @,
                !.pc = AfterRig(J)]]
    /\ UNCHANGED <<fs, s3, s3_client, now>>

\* ------------------------------------------------- clothing branch (625-656)
ClothingKeys == <<"rigged_garment_path", "combined_path", "output_path">>

IsGlbString(v) == v.t = "str" /\ EndsWith(v.s, ".glb")

\* lines 643-650: the path a dict entry makes the handler upload, None when no key
\* is present; the inner loop stops at the first key holding a .glb string
RECURSIVE DictEntryPath(_, _)
DictEntryPath(node_output, i) ==
    IF i > Len(ClothingKeys) THEN None
    ELSE IF Has(node_output, ClothingKeys[i]) /\ IsGlbString(Get(node_output, ClothingKeys[i]))
    THEN Get(node_output, ClothingKeys[i])
    ELSE DictEntryPath(node_output, i + 1)

\* lines 626-629
ClothingBegin(j) ==
    /\ jobs[j].pc = "clothing"
    /\ LET J == jobs[j]
           scan == Has(J.api_response, "outputs") /\ Get(J.api_response, "outputs").t = "dict"
       IN  jobs' = [jobs EXCEPT ![j] = [J EXCEPT
                !.clothing_url = <<>>,
                !.node_i = IF scan THEN 1 ELSE 0,
                !.pc = IF scan THEN "clothing_loop" ELSE "clothing_attach"]]
    /\ UNCHANGED <<fs, s3, s3_client, now>>

\* upload_clothing_to_s3, lines 433-463: the bucket afterwards
ClothingPutBucket(b, f, local_path, user_id, garment_id, outcome) ==
    IF outcome = "ok"
    THEN PutObject(b, ClothingKey(user_id, garment_id), f[local_path].content, "model/gltf-binary")
    ELSE b

\* one iteration of the loop of lines 630-650 over the items of outputs
ClothingNode(j) ==
    /\ jobs[j].pc = "clothing_loop"
    /\ LET J == jobs[j]
           kv == Get(J.api_response, "outputs").kv
       IN  IF J.node_i > Len(kv)
           THEN /\ jobs' = [jobs EXCEPT ![j] = [J EXCEPT !.node_i = 0, !.pc = "clothing_attach"]]
                /\ UNCHANGED <<s3, s3_client>>
           ELSE LET node_output == kv[J.node_i].v
                    is_list == node_output.t = "list" /\ Len(node_output.v) > 0
                    found == IF is_list
                             THEN (IF IsGlbString(node_output.v[1]) THEN node_output.v[1] ELSE None)
                             ELSE IF node_output.t = "dict" THEN DictEntryPath(node_output, 1)
                             ELSE None
                IN  IF found = None
                    THEN /\ jobs' = [jobs EXCEPT ![j] = [J EXCEPT !.node_i = @ + 1]]
                         /\ UNCHANGED <<s3, s3_client>>
                    ELSE \E outcome \in UploadOutcomes(fs, s3_client, found.s) :
                         /\ s3' = ClothingPutBucket(s3, fs, found.s, J.user_id, J.garment_id, outcome)
                         /\ s3_client' = ClientAfter(s3_client, outcome)
                         /\ jobs' = [jobs EXCEPT ![j] = [J EXCEPT
                                !.clothing_url = IF outcome = "ok"
                                                 THEN S3Url(ClothingKey(J.user_id, J.garment_id))
                                                 ELSE <<>>,
                                !.uploads = Append(@, Upload("clothing", found.s, outcome)),
                                !.calls = IF outcome \in {"put", "ok"}
                                          THEN Append(@, "put_clothing") ELSE @,
                                !.node_i = IF is_list THEN 0 ELSE @ + 1,
                                !.pc = IF is_list THEN "clothing_attach" ELSE "clothing_loop"]]
    /\ UNCHANGED <<fs, now>>

\* lines 652-656
ClothingAttach(j) ==
    /\ jobs[j].pc = "clothing_attach"
    /\ LET J == jobs[j]
       IN  jobs' = [jobs EXCEPT ![j] = [J EXCEPT
                !.api_response = IF J.clothing_url # <<>>
                                 THEN Put(Put(Put(@, "clothing_url", Str(J.clothing_url)),
                                              "user_id", Str(J.user_id)),
                                          "garment_id", Str(J.garment_id))
                                 ELSE @,
                !.pc = "return"]]
    /\ UNCHANGED <<fs, s3, s3_client, now>>

\* lines 658-662
Return(j) ==
    /\ jobs[j].pc = "return"
    /\ jobs' = [jobs EXCEPT ![j] = [@ EXCEPT
            !.result = SuccessEnvelope(200, jobs[j].api_response),
            !.pc = "done"]]
    /\ UNCHANGED <<fs, s3, s3_client, now>>

\* ------------------------------------------------------------ specification
\* the jobs the queue delivers
JobRequests == {
    [endpoint |-> <<"/prompt">>, mesh_url |-> <<>>, output_name |-> Absent],
    [endpoint |-> <<"/prompt">>, mesh_url |-> <<"https://x/", "mesh", ".glb">>, output_name |-> <<"m", "1">>],
    [endpoint |-> <<"/workflow/", "rig-avatar">>, mesh_url |-> <<"https://x/", "mesh", ".glb">>, output_name |-> <<"m", "1">>],
    [endpoint |-> <<"/workflow/", "rig-avatar">>, mesh_url |-> <<>>, output_name |-> Absent],
    [endpoint |-> <<"/workflow/", "fit-clothing">>, mesh_url |-> <<>>, output_name |-> <<"m", "1">>],
    [endpoint |-> <<"/workflow/", "rig-avatar", "+", "fit-clothing">>, mesh_url |-> <<>>, output_name |-> <<"m", "1">>] }

ReceivedJob(req) ==
    [IdleJob EXCEPT
        !.pc = "received",
        !.endpoint = req.endpoint,
        !.body = [input |-> [mesh_url |-> req.mesh_url, output_name |-> req.output_name]]]

\* one invocation of handler; the output directory exists and is empty
Init ==
    /\ \E req \in JobRequests :
        jobs = [j \in Jobs |-> IF j = "j1" THEN ReceivedJob(req) ELSE IdleJob]
    /\ fs = MakeDirs(<<>>, OutDir, 0)
    /\ s3 = <<>>
    /\ s3_client = "none"
    /\ now = 0

Next ==
    \E j \in Jobs :
        \/ Receive(j)
        \/ DownloadMesh(j)
        \/ OptStart(j)
        \/ Weld(j)
        \/ Simplify(j)
        \/ Resize(j)
        \/ OptCleanup(j)
        \/ OptExcept(j)
        \/ SetMeshUrl(j)
        \/ Dispatch(j)
        \/ UploadTexturesBegin(j)
        \/ UploadTexture(j)
        \/ Rewrite(j)
        \/ FindOutputFiles(j)
        \/ Compress(j)
        \/ PutGlb(j)
        \/ Cleanup(j)
        \/ PutFbx(j)
        \/ SetRigFields(j)
        \/ ClothingBegin(j)
        \/ ClothingNode(j)
        \/ ClothingAttach(j)
        \/ Return(j)

Spec == Init /\ [][Next]_vars

\* ------------------------------------------------- concurrent invocations
\* mesh URLs of the second job: the same URL as the first job's, another host
\* with the same file name, another file name
OtherMeshUrls ==
    { <<"https://x/", "mesh", ".glb">>, <<"https://z/", "mesh", ".glb">>,
      <<"https://x/", "other", ".glb">> }

\* two rig-avatar invocations with different output_name values run at the same
\* time on one filesystem
InitConcurrent ==
    /\ \E url \in OtherMeshUrls :
        jobs = [j \in Jobs |->
                  IF j = "j1"
                  THEN ReceivedJob([endpoint |-> <<"/workflow/", "rig-avatar">>,
                                    mesh_url |-> <<"https://x/", "mesh", ".glb">>,
                                    output_name |-> <<"m", "1">>])
                  ELSE ReceivedJob([endpoint |-> <<"/workflow/", "rig-avatar">>,
                                    mesh_url |-> url,
                                    output_name |-> <<"m", "2">>])]
    /\ fs = MakeDirs(<<>>, OutDir, 0)
    /\ s3 = <<>>
    /\ s3_client = "none"
    /\ now = 0

\* the steps of the two invocations up to the POST, interleaved
NextConcurrent ==
    \E j \in Jobs :
        \/ Receive(j)
        \/ DownloadMesh(j)
        \/ OptStart(j)
        \/ Weld(j)
        \/ Simplify(j)
        \/ Resize(j)
        \/ OptCleanup(j)
        \/ OptExcept(j)
        \/ SetMeshUrl(j)

SpecConcurrent == InitConcurrent /\ [][NextConcurrent]_vars

\* ------------------------------------- concurrent jobs without output_name
\* the wall clock read by int(time.time()) moves on by one second
Tick ==
    /\ now < MaxTime
    /\ now' = now + 1
    /\ UNCHANGED <<jobs, fs, s3, s3_client>>

\* two rig-avatar invocations whose requests carry neither output_name nor
\* mesh_url run at the same time
InitSynthetic ==
    /\ jobs = [j \in Jobs |->
                ReceivedJob([endpoint |-> <<"/workflow/", "rig-avatar">>,
                             mesh_url |-> <<>>, output_name |-> Absent])]
    /\ fs = MakeDirs(<<>>, OutDir, 0)
    /\ s3 = <<>>
    /\ s3_client = "none"
    /\ now = 0

\* the clock and the steps of the two invocations up to the GLB put, interleaved
NextSynthetic ==
    \/ Tick
    \/ \E j \in Jobs :
        \/ Receive(j)
        \/ DispatchPlain(j)
        \/ FindOutputFiles(j)
        \/ Compress(j)
        \/ PutGlb(j)

SpecSynthetic == InitSynthetic /\ [][NextSynthetic]_vars

\* ------------------------------------------------------- optimizer claims
\* the optimizer of invocation j has returned to handler or raised
OptReturned(j) == jobs[j].pc \in {"set_mesh_url", "raised"}

Succeeded(c) == c.oc.rc = 0 /\ c.oc.written /\ ~c.oc.timeout

NoTimeout(cs) == \A i \in 1..Len(cs) : ~cs[i].oc.timeout

\* the chaining the stages must show: each input is the output of the nearest
\* preceding stage that succeeded, the downloaded file when none did
Chained(J) ==
    LET c == J.cmds
    IN  /\ Len(c) = 3
        /\ c[1].tool = "weld" /\ c[2].tool = "simplify" /\ c[3].tool = "resize"
        /\ c[1].src = J.downloaded_path
        /\ c[2].src = (IF Succeeded(c[1]) THEN c[1].dst ELSE c[1].src)
        /\ c[3].src = (IF Succeeded(c[2]) THEN c[2].dst ELSE c[2].src)
        /\ c[3].dst = Replace(J.downloaded_path, ".glb", <<"_preopt", ".glb">>)

\* what the three stages, chained as above, make of the downloaded bytes
ExpectedContent(c) ==
    <<"raw">> \o (IF Succeeded(c[1]) THEN <<"weld">> ELSE <<>>)
              \o (IF Succeeded(c[2]) THEN <<"simplify">> ELSE <<>>)
              \o (IF Succeeded(c[3]) THEN <<"resize">> ELSE <<>>)

\* C9: when weld, simplify and resize end by exit code or missing output (no
\* timeout), every stage is invoked exactly once, each with the output of the
\* nearest preceding successful stage as input (the downloaded file when none
\* succeeded), and when the optimizer returns through its normal path it returns
\* the declared output path and a file exists there: the resize output, or a
\* copy of the pre-resize file when resize failed.
C9_StageChaining ==
    \A j \in Jobs :
        LET J == jobs[j]
        IN  /\ (OptReturned(j) /\ J.cmds # <<>> /\ NoTimeout(J.cmds)) => Chained(J)
            /\ (J.pc = "set_mesh_url" /\ Len(J.cmds) = 3 /\ NoTimeout(J.cmds)
                    /\ J.calls[Len(J.calls)] # "fallback_copy")
               => /\ J.optimized_input_path = J.cmds[3].dst
                  /\ Exists(fs, J.optimized_input_path)
                  /\ fs[J.optimized_input_path].content = ExpectedContent(J.cmds)

\* C9 witness: weld failed by exit code, simplify and resize were still run and
\* the optimizer returned the declared output path
C9_Witness ==
    \E j \in Jobs :
        /\ jobs[j].pc = "set_mesh_url"
        /\ Len(jobs[j].cmds) = 3
        /\ jobs[j].cmds[1].oc.rc = 1
        /\ ~Succeeded(jobs[j].cmds[3])
        /\ Exists(fs, jobs[j].optimized_input_path)

\* C10: a timeout of one optimizer stage degrades only that stage: the following
\* stages are still invoked (all three stages have run when the optimizer ends),
\* with the timed-out stage's input as their input.
C10_TimeoutDegradesOneStage ==
    \A j \in Jobs :
        (OptReturned(j) /\ jobs[j].cmds # <<>>) =>
            /\ Len(jobs[j].cmds) = 3
            /\ jobs[j].cmds[2].src = (IF Succeeded(jobs[j].cmds[1])
                                      THEN jobs[j].cmds[1].dst ELSE jobs[j].cmds[1].src)

\* --------------------------------------------------------- locator claims
\* invocation j has just returned from find_output_files
Located(j) == jobs[j].calls # <<>> /\ jobs[j].calls[Len(jobs[j].calls)] = "locate"

\* positions of the listing holding a regular file whose name contains model_id
\* and ends in ext
Matches(f, listing, model_id, ext) ==
    { i \in 1..Len(listing) :
        /\ f[listing[i]].kind = "file"
        /\ IsSubstr(model_id, BaseName(listing[i]))
        /\ EndsWith(listing[i], ext) }

Min(S) == CHOOSE x \in S : \A y \in S : x <= y
Max(S) == CHOOSE x \in S : \A y \in S : x >= y

Found(j, ext) == IF ext = ".glb" THEN jobs[j].glb_path ELSE jobs[j].fbx_path

\* C7 as stated: for each extension with at least one regular file whose name
\* contains job_id, find_output_files returns the FIRST such file in
\* directory-listing order.
C7_FirstHitWins ==
    \A j \in Jobs : \A ext \in {".glb", ".fbx"} :
        LET M == Matches(fs, jobs[j].listing, jobs[j].model_id, ext)
        IN  (Located(j) /\ M # {}) => Found(j, ext) = jobs[j].listing[Min(M)]

\* C7 amended: for each extension with at least one regular file whose name
\* contains job_id, find_output_files returns the LAST such file in
\* directory-listing order; a file whose name does not contain job_id is never
\* returned for that extension while a matching one exists.
C7_LastHitWins ==
    \A j \in Jobs : \A ext \in {".glb", ".fbx"} :
        LET M == Matches(fs, jobs[j].listing, jobs[j].model_id, ext)
        IN  (Located(j) /\ M # {}) =>
                /\ Found(j, ext) = jobs[j].listing[Max(M)]
                /\ IsSubstr(jobs[j].model_id, BaseName(Found(j, ext)))

\* C7 witness: two regular .glb files carry the job identifier and the locator
\* has returned the one listed last
C7_Witness ==
    \E j \in Jobs :
        /\ Located(j)
        /\ Cardinality(Matches(fs, jobs[j].listing, jobs[j].model_id, ".glb")) >= 2
        /\ jobs[j].glb_path = jobs[j].listing[Len(jobs[j].listing)]

\* the entries glob offers for an extension
GlobSet(f, ext) == { p \in DirEntries(f, OutDir) : EndsWith(p, ext) }

\* C8: independently for each extension, when no regular file of that extension
\* has a name containing job_id, find_output_files returns an entry of that
\* extension with the most recent modification time in the search directory (the
\* entries are those glob matches, sub-directories included), or the empty string
\* when there is none; an extension that had a substring match keeps its match;
\* when the directory does not exist both results are empty.
C8_FallbackMostRecent ==
    \A j \in Jobs : Located(j) =>
        /\ \A ext \in {".glb", ".fbx"} :
            LET M == Matches(fs, jobs[j].listing, jobs[j].model_id, ext)
                G == GlobSet(fs, ext)
                r == Found(j, ext)
            IN  /\ (M = {} /\ G = {}) => r = <<>>
                /\ (M = {} /\ G # {}) =>
                        /\ r \in G
                        /\ \A q \in G : fs[q].mtime <= fs[r].mtime
                /\ (M # {}) => r \in { jobs[j].listing[i] : i \in M }
        /\ (~Exists(fs, <<OutDir>>)) => (jobs[j].glb_path = <<>> /\ jobs[j].fbx_path = <<>>)

\* C8 witness: no .glb name carries the job identifier, two .glb entries of
\* different age exist, and the locator has returned the more recent one
C8_Witness ==
    \E j \in Jobs :
        /\ Located(j)
        /\ Matches(fs, jobs[j].listing, jobs[j].model_id, ".glb") = {}
        /\ \E a, b \in GlobSet(fs, ".glb") : fs[a].mtime < fs[b].mtime /\ jobs[j].glb_path = b

\* ---------------------------------------------------------- handler claims
Done(j) == jobs[j].pc = "done"

Fields(j) == DOMAIN jobs[j].result

\* C1: every value handler returns is an envelope with exactly one of
\* response/error: status "success" with response and without error, or status
\* "error" with error and without response.
C1_EnvelopeWellFormed ==
    \A j \in Jobs : Done(j) =>
        /\ "status" \in Fields(j)
        /\ \/ /\ jobs[j].result.status = "success"
              /\ "response" \in Fields(j) /\ "error" \notin Fields(j)
           \/ /\ jobs[j].result.status = "error"
              /\ "error" \in Fields(j) /\ "response" \notin Fields(j)

\* C1 witness: handler has returned an error envelope although the rendering
\* service had replied (a failure after dispatch)
C1_Witness ==
    \E j \in Jobs : Done(j) /\ jobs[j].post = "reply" /\ jobs[j].result.status = "error"

\* C2: stage-local failures never become job errors: handler never raises to its
\* caller, and whenever the POST returned a reply (whose body could be read) the
\* envelope's status is "success".
C2_StageFailuresNeverJobErrors ==
    \A j \in Jobs :
        /\ jobs[j].pc # "raised"
        /\ (Done(j) /\ jobs[j].post = "reply" /\ jobs[j].reply.t # "invalid")
                => jobs[j].result.status = "success"

PipelineCalls == {"client", "put_texture", "locate", "compress", "put_glb", "put_fbx", "put_clothing"}

Called(j) == { jobs[j].calls[i] : i \in 1..Len(jobs[j].calls) }

\* C3: if the POST times out or raises, handler returns {status: "error", error:
\* message} and no locate, compress or storage put happens in that invocation:
\* the POST is the last call it makes.
C3_DispatchFailureIsTerminal ==
    \A j \in Jobs : jobs[j].post \in {"timeout", "error"} =>
        /\ Done(j)
        /\ Fields(j) = {"status", "error"}
        /\ jobs[j].result.status = "error"
        /\ jobs[j].calls[Len(jobs[j].calls)] = "post"
        /\ Called(j) \cap PipelineCalls = {}
        /\ s3 = <<>>

\* C3 witness: a rig-avatar job whose mesh was pre-optimized and whose POST timed out
C3_Witness ==
    \E j \in Jobs :
        /\ jobs[j].post = "timeout" /\ Done(j)
        /\ "resize" \in Called(j)
        /\ jobs[j].result.error = "Request timed out after 300 seconds"

\* the value of a rig field: the URL of the artifact's own key when its put
\* succeeded, the empty string otherwise
RigField(j, file_type) ==
    IF RiggedKey(jobs[j].model_id, file_type) \in DOMAIN s3
    THEN Str(S3Url(RiggedKey(jobs[j].model_id, file_type))) ELSE Str(<<>>)

\* C4: for a rig-avatar job whose reply is a JSON object, status is "success" and
\* the response holds glb_output_path and fbx_output_path, each the URL of its own
\* artifact when that was put, "" otherwise.
C4_RigFieldsAlwaysPresent ==
    \A j \in Jobs :
        (Done(j) /\ IsSubstr(<<"rig-avatar">>, jobs[j].endpoint) /\ jobs[j].reply.t = "dict") =>
            /\ jobs[j].result.status = "success"
            /\ Has(jobs[j].result.response, "glb_output_path")
            /\ Has(jobs[j].result.response, "fbx_output_path")
            /\ Get(jobs[j].result.response, "glb_output_path") = RigField(j, "glb")
            /\ Get(jobs[j].result.response, "fbx_output_path") = RigField(j, "fbx")

\* a response that still holds an embedded raw texture payload
HoldsPayload(r) ==
    /\ r.t = "dict"
    /\ \/ Has(r, "textures_json")
       \/ /\ Has(r, "outputs") /\ Get(r, "outputs").t = "dict"
          /\ \E i \in 1..Len(Get(r, "outputs").kv) :
                LET e == Get(r, "outputs").kv[i].v
                IN  \/ e.t = "dict" /\ Has(e, "textures_json")
                    \/ e.t = "list" /\ Len(e.v) >= 3 /\ e.v[3].t = "tj" /\ e.v[3].text = "arr"

\* C5: if at least one texture was uploaded, the returned response carries
\* texture_urls and holds the raw payload nowhere: not at the top level and in no
\* entry of outputs, dict or sequence.
C5_NoRawPayloadReturned ==
    \A j \in Jobs : (Done(j) /\ jobs[j].texture_urls # <<>>) =>
        /\ jobs[j].result.status = "success"
        /\ Has(jobs[j].result.response, "texture_urls")
        /\ ~HoldsPayload(jobs[j].result.response)

OtherEndpoint(j) ==
    /\ jobs[j].pc # "idle"
    /\ ~IsSubstr(<<"rig-avatar">>, jobs[j].endpoint)
    /\ ~IsSubstr(<<"fit-clothing">>, jobs[j].endpoint)

ArtifactCalls ==
    {"download", "weld", "simplify", "resize", "fallback_copy", "locate", "compress",
     "remove", "put_glb", "put_fbx", "put_clothing"}

\* C6 as stated: an endpoint containing neither "rig-avatar" nor "fit-clothing"
\* performs no download, optimizer call, locate, compress or storage put
\* (texture puts included) and returns the reply unchanged.
C6_OtherEndpointsSkipAllStages ==
    \A j \in Jobs : OtherEndpoint(j) =>
        /\ Called(j) \cap (ArtifactCalls \cup {"put_texture"}) = {}
        /\ (Done(j) /\ "response" \in Fields(j)) => jobs[j].texture_urls = <<>>

\* C6 amended: such an endpoint performs no download, optimizer call, locate,
\* compress, rigged-model put or clothing put; the texture reconciliation still
\* runs, so texture puts may happen, and a returned response equals the reply
\* unchanged exactly when no texture was uploaded (otherwise it carries
\* texture_urls).
C6_OtherEndpointsSkipArtifactStages ==
    \A j \in Jobs : OtherEndpoint(j) =>
        /\ Called(j) \cap ArtifactCalls = {}
        /\ DOMAIN fs = {<<OutDir>>}
        /\ (Done(j) /\ "response" \in Fields(j)) =>
            IF jobs[j].texture_urls = <<>>
            THEN jobs[j].result.response = jobs[j].reply
            ELSE /\ Has(jobs[j].result.response, "texture_urls")
                 /\ ~Has(jobs[j].reply, "texture_urls")

\* C6 witness: a /prompt job carrying a mesh_url has returned a response to which
\* uploaded textures were added
C6_Witness ==
    \E j \in Jobs :
        /\ OtherEndpoint(j) /\ Done(j)
        /\ jobs[j].body.input.mesh_url # <<>>
        /\ jobs[j].texture_urls # <<>>
        /\ "response" \in Fields(j)

\* ------------------------------------------------- pre-optimization claims
OptimizerCalls == {"weld", "simplify", "resize", "fallback_copy"}

\* invocation j has issued the POST to the rendering service
Posted(j) == jobs[j].post # "none"

\* the mesh download of invocation j returned the empty string
DownloadFailed(j) == jobs[j].download \in {"error", "timeout"}

\* C11: if the mesh download fails, no optimizer tool is invoked, the job goes on
\* to the dispatch, and the body sent carries the original remote mesh_url; if the
\* download succeeds, the mesh_url sent is the local path the optimizer returned
\* (the pre-optimized file or, when the optimizer fell back, the downloaded file).
C11_DownloadFailureKeepsRemoteUrl ==
    \A j \in Jobs :
        LET J == jobs[j]
        IN  /\ DownloadFailed(j) =>
                /\ Called(j) \cap OptimizerCalls = {}
                /\ J.pc = "dispatch" \/ Posted(j)
                /\ J.body.input.mesh_url = J.mesh_url
                /\ Posted(j) => J.sent.input.mesh_url = J.mesh_url
            /\ (J.download = "ok" /\ Posted(j)) =>
                /\ J.sent.input.mesh_url = J.optimized_input_path
                /\ J.sent.input.mesh_url \in
                        { J.downloaded_path,
                          Replace(J.downloaded_path, ".glb", <<"_preopt", ".glb">>) }
                /\ J.sent.input.mesh_url[1] = InDir

\* C11 witness: a download failed and the POST went out with the remote URL
C11_Witness ==
    \E j \in Jobs :
        /\ DownloadFailed(j) /\ Posted(j)
        /\ jobs[j].sent.input.mesh_url = <<"https://x/", "mesh", ".glb">>

\* C12 as stated: a timeout of the mesh download is terminal: after it the
\* rendering service is not called.
C12_DownloadTimeoutIsTerminal ==
    \A j \in Jobs : jobs[j].download = "timeout" => ~Posted(j)

\* C12 amended: a timeout of the mesh download is not terminal: the invocation
\* does not end on it, the call that follows the download is the POST to the
\* rendering service, and the invocation returns only after that POST.
C12_DownloadTimeoutContinues ==
    \A j \in Jobs : jobs[j].download = "timeout" =>
        /\ jobs[j].pc # "raised"
        /\ Done(j) => Posted(j)
        /\ \A i \in 1..Len(jobs[j].calls) :
                (jobs[j].calls[i] = "download" /\ i < Len(jobs[j].calls))
                    => jobs[j].calls[i + 1] = "post"

\* C12 witness: the download timed out and the rendering service replied
C12_Witness ==
    \E j \in Jobs :
        /\ jobs[j].download = "timeout"
        /\ jobs[j].post = "reply" /\ Done(j)
        /\ jobs[j].result.status = "success"

\* ----------------------------------------------------------- texture claims
\* upload_textures_to_s3 has returned to its caller in invocation j
TexturesReturned(j) ==
    /\ "upload_textures" \in Called(j)
    /\ jobs[j].pc \notin {"upload_textures", "tex_loop"}
    /\ ~(jobs[j].pc = "done" /\ jobs[j].result = ErrorEnvelope("could not create s3 client"))

RECURSIVE ExpectedUploads(_, _, _, _)
\* the Uploaded Textures of the records items[i..]: one for each record that has
\* data and whose decode and put succeeded (outcome "ok"), in input order
ExpectedUploads(items, outcomes, model_id, i) ==
    IF i > Len(items) THEN <<>>
    ELSE (IF items[i].data_base64 # "" /\ outcomes[i] = "ok"
          THEN << [name |-> items[i].name, type |-> items[i].type,
                   url |-> <<Bucket, "avatar-textures/">> \o model_id
                            \o <<"/", items[i].name, ".png">>] >>
          ELSE <<>>)
         \o ExpectedUploads(items, outcomes, model_id, i + 1)

\* C13: when upload_textures_to_s3 returns, every record of the payload has been
\* processed once, a record without data or with undecodable data was never put,
\* and the result is exactly the records with data whose decode and put
\* succeeded, in input order, each as {name, type, url}; for "" and "[]" the
\* result is [] with no put and no storage-client creation.
C13_TextureBatch ==
    \A j \in Jobs : TexturesReturned(j) =>
        LET J == jobs[j]
            items == J.textures_json.items
        IN  /\ J.textures_json.text = "arr" =>
                /\ Len(J.tex_log) = Len(items)
                /\ \A i \in 1..Len(items) :
                    /\ J.tex_log[i] = "skip" <=> items[i].data_base64 = ""
                    /\ J.tex_log[i] = "decode" <=> items[i].data_base64 = "bad"
                    /\ J.tex_log[i] = "ok" =>
                            TextureKey(J.model_id, items[i].name) \in DOMAIN s3
                /\ J.texture_urls = ExpectedUploads(items, J.tex_log, J.model_id, 1)
            /\ J.textures_json.text \in {"", "[]"} =>
                /\ J.texture_urls = <<>>
                /\ s3 = <<>>
                /\ Called(j) \cap {"client", "put_texture"} = {}

\* C13 witness: of two records the put of the first failed and the second was
\* uploaded and returned
C13_Witness ==
    \E j \in Jobs :
        /\ TexturesReturned(j)
        /\ jobs[j].textures_json.text = "arr"
        /\ Len(jobs[j].tex_log) = 2
        /\ jobs[j].tex_log[1] = "put" /\ jobs[j].tex_log[2] = "ok"
        /\ Len(jobs[j].texture_urls) = 1

\* the payload of a reply that carries it in exactly one place: top-level
\* textures_json (a), textures_json of the single dict entry of outputs (b1), or
\* index 2 of the single sequence entry of outputs (b2); None for other replies
PlacedPayload(r) ==
    IF r.t # "dict" THEN None
    ELSE IF Has(r, "textures_json") /\ ~Has(r, "outputs") THEN Get(r, "textures_json")
    ELSE IF ~Has(r, "textures_json") /\ Has(r, "outputs")
            /\ Get(r, "outputs").t = "dict" /\ Len(Get(r, "outputs").kv) = 1
    THEN LET e == Get(r, "outputs").kv[1].v
         IN  IF e.t = "dict" /\ Has(e, "textures_json") THEN Get(e, "textures_json")
             ELSE IF e.t = "list" /\ Len(e.v) = 3 THEN e.v[3]
             ELSE None
    ELSE None

\* the shape in which such a reply carries its payload
PlacedShape(r) ==
    IF Has(r, "textures_json") THEN "a"
    ELSE IF Get(r, "outputs").kv[1].v.t = "dict" THEN "b1" ELSE "b2"

NonEmptyPayload(P) == P.t = "tj" /\ P.text \notin {"", "[]"}

\* C14: whichever of the three shapes carries a non-empty payload P, handler
\* hands exactly P to upload_textures_to_s3, and the texture_urls it gets are
\* determined by P, the job identifier and the storage outcomes alone (the
\* records of P with data whose decode and put succeeded, in order), so they are
\* the same for the three shapes.
C14_ShapesAreEquivalentCarriers ==
    \A j \in Jobs :
        LET J == jobs[j]
            P == PlacedPayload(J.reply)
        IN  NonEmptyPayload(P) =>
                /\ J.textures_json = P
                /\ J.pc = "upload_textures" \/ "upload_textures" \in Called(j)
                /\ TexturesReturned(j) =>
                        J.texture_urls = ExpectedUploads(P.items, J.tex_log, J.model_id, 1)

\* C14 witness: a payload carried at index 2 of a sequence entry was uploaded
C14_Witness ==
    \E j \in Jobs :
        /\ NonEmptyPayload(PlacedPayload(jobs[j].reply))
        /\ PlacedShape(jobs[j].reply) = "b2"
        /\ TexturesReturned(j)
        /\ Len(jobs[j].texture_urls) = 2

\* C15: when the reply's content-type is not JSON, handler returns {status:
\* "success", status_code, response: raw text} at once, whatever the endpoint: no
\* texture upload, locate, compress, rigged-model put or clothing put, and the
\* POST is the last call of the invocation.
C15_TextBypassesReconciler ==
    \A j \in Jobs : jobs[j].reply.t = "text" =>
        /\ Done(j)
        /\ jobs[j].result = SuccessEnvelope(200, [t |-> "text"])
        /\ jobs[j].calls[Len(jobs[j].calls)] = "post"
        /\ Called(j) \cap (PipelineCalls \cup {"upload_textures", "remove"}) = {}
        /\ s3 = <<>>

\* C15 witness: a rig-avatar + fit-clothing job for which the rendering service
\* wrote a rigged GLB and answered with text
C15_Witness ==
    \E j \in Jobs :
        /\ jobs[j].reply.t = "text" /\ Done(j)
        /\ jobs[j].is_rig_workflow /\ jobs[j].is_clothing_workflow
        /\ Exists(fs, PathJoin(OutDir, <<"m", "1", ".glb">>))

\* the entries of outputs that match shape (b1) or (b2): a dict holding
\* textures_json, or a sequence of at least three elements
CarrierEntries(kv) ==
    { i \in 1..Len(kv) :
        \/ kv[i].v.t = "dict" /\ Has(kv[i].v, "textures_json")
        \/ kv[i].v.t = "list" /\ Len(kv[i].v.v) >= 3 }

\* what probing in priority order must select: the flat field when present, else
\* the payload of the first matching entry of outputs, else nothing
Selected(r) ==
    IF r.t # "dict" THEN None
    ELSE IF Has(r, "textures_json") THEN Get(r, "textures_json")
    ELSE IF Has(r, "outputs") /\ Get(r, "outputs").t = "dict"
            /\ CarrierEntries(Get(r, "outputs").kv) # {}
    THEN LET kv == Get(r, "outputs").kv
             e == kv[Min(CarrierEntries(kv))].v
         IN  IF e.t = "dict" THEN Get(e, "textures_json") ELSE e.v[3]
    ELSE None

Count(seq, x) == Cardinality({ i \in 1..Len(seq) : seq[i] = x })

Names(items) == { items[i].name : i \in 1..Len(items) }

\* C16: handler reads the flat textures_json when the reply has one and otherwise
\* the first matching entry of outputs in mapping order; it uploads records of
\* that one payload only, calls upload_textures_to_s3 at most once, and when no
\* shape matches it uploads nothing and returns status "success".
C16_FirstMatchWins ==
    \A j \in Jobs :
        LET J == jobs[j]
            sel == Selected(J.reply)
        IN  (J.post = "reply" /\ J.reply.t \in {"dict", "list"}) =>
                /\ J.textures_json = sel
                /\ Count(J.calls, "upload_textures") <= 1
                /\ "upload_textures" \in Called(j) => NonEmptyPayload(sel)
                /\ Names(J.uploaded) \cup Names(J.texture_urls)
                        \subseteq (IF sel.t = "tj" THEN Names(sel.items) ELSE {})
                /\ sel = None =>
                        /\ J.texture_urls = <<>>
                        /\ Called(j) \cap {"upload_textures", "client", "put_texture"} = {}
                        /\ Done(j) => J.result.status = "success"

\* C16 witness: the first entry of outputs is a sequence carrying one payload, a
\* later dict entry carries another, and only the first one's texture was uploaded
C16_Witness ==
    \E j \in Jobs :
        LET kv == Get(jobs[j].reply, "outputs").kv
        IN  /\ jobs[j].post = "reply" /\ jobs[j].reply.t = "dict"
            /\ ~Has(jobs[j].reply, "textures_json") /\ Has(jobs[j].reply, "outputs")
            /\ Get(jobs[j].reply, "outputs").t = "dict"
            /\ Cardinality(CarrierEntries(kv)) = 2
            /\ kv[1].v.t = "list" /\ kv[2].v.t = "dict"
            /\ Names(jobs[j].texture_urls) = {"emissive"}
            /\ Done(j)

\* ---------------------------------------------------------- clothing claims
\* the uploads of one artifact kind, in call order
UploadsOf(j, kind) == SelectSeq(jobs[j].uploads, LAMBDA u : u.kind = kind)

\* an entry of outputs that bears a path: a sequence whose first element is a
\* string ending in .glb, or a dict holding one of the path keys
PathBearing(e) ==
    \/ e.t = "list" /\ Len(e.v) > 0 /\ IsGlbString(e.v[1])
    \/ e.t = "dict" /\ \E i \in 1..Len(ClothingKeys) : Has(e, ClothingKeys[i])

\* the path such an entry bears
BornePath(e) ==
    IF e.t = "list" THEN e.v[1].s
    ELSE Get(e, ClothingKeys[Min({ i \in 1..Len(ClothingKeys) : Has(e, ClothingKeys[i]) })]).s

PathBearers(r) ==
    IF r.t = "dict" /\ Has(r, "outputs") /\ Get(r, "outputs").t = "dict"
    THEN { i \in 1..Len(Get(r, "outputs").kv) : PathBearing(Get(r, "outputs").kv[i].v) }
    ELSE {}

\* C17: a clothing job attempts exactly one clothing upload, for the path of the
\* first path-bearing entry of outputs, none for later entries and none when no
\* entry bears a path; clothing_url, user_id and garment_id are in the response
\* exactly when that upload succeeded.
C17_SingleClothingUpload ==
    \A j \in Jobs :
        (Done(j) /\ jobs[j].is_clothing_workflow /\ jobs[j].reply.t = "dict"
                 /\ jobs[j].result.status = "success") =>
            LET B == PathBearers(jobs[j].reply)
                U == UploadsOf(j, "clothing")
                resp == jobs[j].result.response
            IN  IF B = {}
                THEN U = <<>> /\ ~Has(resp, "clothing_url")
                ELSE /\ Len(U) = 1
                     /\ U[1].path = BornePath(Get(jobs[j].reply, "outputs").kv[Min(B)].v)
                     /\ Has(resp, "clothing_url") <=> U[1].outcome = "ok"
                     /\ Has(resp, "clothing_url") <=> Has(resp, "user_id")
                     /\ Has(resp, "clothing_url") <=> Has(resp, "garment_id")

\* ------------------------------------------------------------ rig claims
\* C18: when handler returns for a rig-avatar job whose mesh was downloaded, the
\* downloaded mesh and the pre-optimized mesh no longer exist.
C18_IntermediatesRemoved ==
    \A j \in Jobs :
        (Done(j) /\ jobs[j].is_rig_workflow /\ jobs[j].download = "ok") =>
            /\ ~Exists(fs, jobs[j].downloaded_path)
            /\ ~Exists(fs, Replace(jobs[j].downloaded_path, ".glb", <<"_preopt", ".glb">>))

\* positions of the calls of a set in the call sequence of invocation j
Positions(j, S) == { i \in 1..Len(jobs[j].calls) : jobs[j].calls[i] \in S }

\* every call of set A precedes every call of set B
Precede(j, A, B) == \A a \in Positions(j, A), b \in Positions(j, B) : a < b

\* the stage order of one invocation: pre-optimization before the POST, texture
\* reconciliation before locate, locate before compress, compress before the GLB
\* put, both puts after locate; locate and compress at most once
StagesInOrder(j) ==
    /\ Precede(j, {"download"} \cup OptimizerCalls, {"post"})
    /\ Posted(j) => jobs[j].cmds = <<>> /\ jobs[j].pc \notin {"optimize", "weld", "simplify", "resize"}
    /\ Precede(j, {"post"}, {"upload_textures", "client", "put_texture", "locate"})
    /\ Precede(j, {"upload_textures", "client", "put_texture"}, {"locate"})
    /\ Precede(j, {"locate"}, {"compress", "put_glb", "put_fbx"})
    /\ Precede(j, {"compress"}, {"put_glb", "put_fbx"})
    /\ Count(jobs[j].calls, "locate") <= 1
    /\ Count(jobs[j].calls, "compress") <= 1
    /\ Len(UploadsOf(j, "glb")) <= 1
    /\ UploadsOf(j, "glb") # <<>> => "compress" \in Called(j)

\* the FBX is never compressed: its upload is given the located path itself, and
\* no _final copy of an .fbx file is ever made
FbxUntouched(j) ==
    /\ \A i \in 1..Len(UploadsOf(j, "fbx")) : UploadsOf(j, "fbx")[i].path = jobs[j].fbx_path
    /\ \A p \in DOMAIN fs : EndsWith(p, ".fbx") => ~IsSubstr(<<"_final">>, p)

FinalPath(glb_path) == Replace(glb_path, ".glb", <<"_final", ".glb">>)

\* C19 as stated: the stages run in order, and the file put as the GLB is the
\* compressor's _final output, never the located file itself.
C19_PipelineOrderStrict ==
    \A j \in Jobs :
        /\ StagesInOrder(j)
        /\ FbxUntouched(j)
        /\ \A i \in 1..Len(UploadsOf(j, "glb")) :
                /\ UploadsOf(j, "glb")[i].path = FinalPath(jobs[j].glb_path)
                /\ UploadsOf(j, "glb")[i].path # jobs[j].glb_path

\* C19 amended: the stages run in order, and the file put as the GLB is the path
\* the compressor returned: the _final copy when the copy was made, the located
\* file itself when the compressor fell back to its input.
C19_PipelineOrder ==
    \A j \in Jobs :
        /\ StagesInOrder(j)
        /\ FbxUntouched(j)
        /\ \A i \in 1..Len(UploadsOf(j, "glb")) :
            LET path == UploadsOf(j, "glb")[i].path
            IN  /\ path = jobs[j].compressed_glb
                /\ path \in {FinalPath(jobs[j].glb_path), jobs[j].glb_path}
                /\ path = jobs[j].glb_path => ~Exists(fs, FinalPath(jobs[j].glb_path))
                /\ (path # jobs[j].glb_path /\ Exists(fs, jobs[j].glb_path)) =>
                        /\ Exists(fs, path)
                        /\ fs[path].content = fs[jobs[j].glb_path].content

\* C19 witness: a pre-optimized rig job uploaded textures, then the _final copy of
\* the located GLB, then the located FBX
C19_Witness ==
    \E j \in Jobs :
        /\ Done(j)
        /\ {"resize", "put_texture", "locate", "compress", "put_glb", "put_fbx"} \subseteq Called(j)
        /\ UploadsOf(j, "glb")[1].path = FinalPath(jobs[j].glb_path)
        /\ UploadsOf(j, "glb")[1].outcome = "ok"
        /\ UploadsOf(j, "fbx")[1].outcome = "ok"

\* -------------------------------------------------------- concurrency claims
\* the intermediate paths invocation j has written so far: its downloaded mesh
\* and the outputs of its optimizer tools
WrittenPaths(j) ==
    (IF jobs[j].download = "ok" THEN {jobs[j].downloaded_path} ELSE {})
    \cup { jobs[j].cmds[i].dst : i \in { k \in 1..Len(jobs[j].cmds) : jobs[j].cmds[k].oc.written } }

\* the intermediate paths invocation j has read or written so far
TouchedPaths(j) ==
    WrittenPaths(j) \cup { jobs[j].cmds[i].src : i \in 1..Len(jobs[j].cmds) }

\* C20: two concurrent invocations with different job identifiers never touch
\* each other's intermediate files: what one has written is disjoint from what
\* the other has read or written.
C20_NoFilesystemCollision ==
    \A j, k \in Jobs :
        (j # k /\ jobs[j].model_id # jobs[k].model_id) =>
            WrittenPaths(j) \cap TouchedPaths(k) = {}

\* invocation j has derived its model identifier from the clock
Synthetic(j) == jobs[j].body.input.output_name = Absent /\ jobs[j].model_id # <<>>

\* the storage keys invocation j has put its rigged models to
RiggedKeysPut(j) ==
    { RiggedKey(jobs[j].model_id, jobs[j].uploads[i].kind) :
        i \in { k \in 1..Len(jobs[j].uploads) :
                  jobs[j].uploads[k].kind \in {"glb", "fbx"} /\ jobs[j].uploads[k].outcome = "ok" } }

\* C21: two concurrent invocations that both omit output_name obtain distinct
\* model identifiers, and so never put to the same rigged-model key.
C21_SyntheticIdsDistinct ==
    \A j, k \in Jobs :
        (j # k /\ Synthetic(j) /\ Synthetic(k)) =>
            /\ jobs[j].model_id # jobs[k].model_id
            /\ RiggedKeysPut(j) \cap RiggedKeysPut(k) = {}

\* --------------------------------------- compress and cleanup (600-620), alone
\* the path line 526 gives the pre-optimized input of a downloaded mesh
PreoptPath == Replace(DownloadPath(<<"https://x/", "mesh", ".glb">>, 0), ".glb", <<"_preopt", ".glb">>)

\* the regular files the output directory may hold when the compressor is called
CompressDirs ==
    { f \in OutputDirs : f # <<>> /\ f[<<OutDir>>] = Directory(0) /\ \A p \in DOMAIN f : p # <<OutDir>> => f[p].kind = "file" }

\* the files of the output directory that the rendering service wrote: the
\* service names its outputs after output_name; a *_final.glb there is the copy
\* an earlier invocation's compress_rigged_glb left
ServiceWritten(f) == { p \in DirEntries(f, OutDir) : ~IsSubstr(<<"_final">>, BaseName(p)) }

\* the GLB paths compress_rigged_glb may be called with: a file of the output
\* directory, or a path at which no file is
CompressInputs == { PathJoin(OutDir, n) : n \in { m \in OutNames : EndsWith(m, ".glb") } }

\* one rig-avatar invocation between line 594 and line 603
CompressJob(glb, fbx, opt, written) ==
    [LocateJob(<<"m", "1">>) EXCEPT
        !.pc = "compress",
        !.glb_path = glb, !.fbx_path = fbx,
        !.optimized_input_path = opt,
        !.reply = Dict(<<>>), !.api_response = Dict(<<>>),
        !.outs = written,
        !.calls = <<"post", "locate">>]

InitCompress ==
    /\ \E d \in CompressDirs, opt \in {<<>>, PreoptPath}, kept \in BOOLEAN :
        /\ opt = <<>> => kept
        /\ fs = IF opt # <<>> /\ kept THEN WriteFile(d, opt, <<"preopt">>, 0) ELSE d
        /\ \E glb \in CompressInputs,
              fbx \in {<<>>} \cup { p \in DOMAIN d : EndsWith(p, ".fbx") } :
            jobs = [j \in Jobs |-> IF j = "j1" THEN CompressJob(glb, fbx, opt, ServiceWritten(d))
                                   ELSE IdleJob]
    /\ s3 = <<>>
    /\ s3_client = "none"
    /\ now = MaxTime

NextCompress ==
    \E j \in Jobs :
        \/ Compress(j)
        \/ PutGlb(j)
        \/ Cleanup(j)
        \/ PutFbx(j)
        \/ SetRigFields(j)
        \/ Return(j)

SpecCompress == InitCompress /\ [][NextCompress]_vars

\* ------------------------------------------------------------------- C22
\* the files the rendering service wrote for some invocation
ServiceFiles == UNION { jobs[j].outs : j \in Jobs }

\* a file the handler wrote: the downloaded mesh and its pre-optimized copy in
\* the input directory, or a <name>_final.glb copy
HandlerCreated(p) ==
    \/ Len(p) > 1 /\ p[1] = InDir /\ p[2] = "downloaded_"
    \/ IsSubstr(<<"_final">>, BaseName(p))

\* a step in which compress_rigged_glb runs on a path where no file is
CompressOnMissing(j) ==
    /\ jobs[j].pc = "compress" /\ jobs'[j].pc = "put_glb"
    /\ ~Exists(fs, jobs[j].glb_path)

SecondNames == { <<"m", "1">>, <<"m", "2">> }

RigRequest(name) ==
    [endpoint |-> <<"/workflow/", "rig-avatar">>, mesh_url |-> <<>>, output_name |-> name]

\* the worker takes the next job when the handler has returned or raised
Finished(j) == jobs[j].pc \in {"done", "raised"}

Turn(j) == j = "j1" \/ Finished("j1")

InitSequence ==
    /\ \E name \in SecondNames :
        jobs = [j \in Jobs |-> ReceivedJob(RigRequest(IF j = "j1" THEN <<"m", "1">> ELSE name))]
    /\ fs = MakeDirs(<<>>, OutDir, 0)
    /\ s3 = <<>>
    /\ s3_client = "none"
    /\ now = 0

NextSequence ==
    \E j \in Jobs :
        \/ Turn(j) /\ Receive(j)
        \/ Turn(j) /\ DispatchPlain(j)
        \/ Turn(j) /\ FindOutputFiles(j)
        \/ Turn(j) /\ Compress(j)
        \/ Turn(j) /\ PutGlb(j)
        \/ Turn(j) /\ Cleanup(j)
        \/ Turn(j) /\ PutFbx(j)
        \/ Turn(j) /\ SetRigFields(j)
        \/ Turn(j) /\ Return(j)

SpecSequence == InitSequence /\ [][NextSequence]_vars

\* ------------------------------------------------------------------- C23
\* the GLB the locator returned to invocation j, once it has run
LocatedGlb(j) == IF "locate" \in Called(j) THEN jobs[j].glb_path ELSE <<>>

\* C23: in a sequence of rig-avatar invocations sharing the output directory,
\* the GLB the locator returns is a file the rendering service wrote, never the
\* <name>_final.glb copy a compress_rigged_glb left there.
C23_LocatedIsServiceOutput ==
    \A j \in Jobs : LocatedGlb(j) # <<>> =>
        /\ LocatedGlb(j) \in ServiceFiles
        /\ ~IsSubstr(<<"_final">>, BaseName(LocatedGlb(j)))

\* ------------------ a second invocation while the first one's POST is pending
\* two rig-avatar invocations whose mesh URLs differ but end in the same file name
InitPending ==
    /\ jobs = [j \in Jobs |->
                 ReceivedJob([endpoint |-> <<"/workflow/", "rig-avatar">>,
                              mesh_url |-> IF j = "j1" THEN <<"https://x/", "mesh", ".glb">>
                                           ELSE <<"https://z/", "mesh", ".glb">>,
                              output_name |-> IF j = "j1" THEN <<"m", "1">> ELSE <<"m", "2">>])]
    /\ fs = MakeDirs(<<>>, OutDir, 0)
    /\ s3 = <<>>
    /\ s3_client = "none"
    /\ now = 0

\* invocation j has issued its POST (line 536) and the service has not replied
PostPending(j) == jobs[j].pc = "dispatch"

\* invocation j may take a step: the second one only while the first POST is pending
Running(j) == j = "j1" \/ PostPending("j1")

\* the first invocation runs up to its POST; the second one runs while that POST
\* is pending, up to its own cleanup; then the first reply arrives
NextPending ==
    \E j \in Jobs :
        \/ Running(j) /\ Receive(j)
        \/ Running(j) /\ DownloadMesh(j)
        \/ Running(j) /\ OptStart(j)
        \/ Running(j) /\ Weld(j)
        \/ Running(j) /\ Simplify(j)
        \/ Running(j) /\ Resize(j)
        \/ Running(j) /\ OptCleanup(j)
        \/ Running(j) /\ OptExcept(j)
        \/ Running(j) /\ SetMeshUrl(j)
        \/ Running(j) /\ DispatchPlain(j)
        \/ Running(j) /\ j = "j2" /\ FindOutputFiles(j)
        \/ Running(j) /\ j = "j2" /\ Compress(j)
        \/ Running(j) /\ j = "j2" /\ PutGlb(j)
        \/ Running(j) /\ j = "j2" /\ Cleanup(j)

SpecPending == InitPending /\ [][NextPending]_vars

\* ------------------------------------------------------------------- C24
\* the body invocation j sends carries a local path as mesh_url
LocalMesh(j) ==
    /\ jobs[j].body.input.mesh_url # <<>>
    /\ jobs[j].body.input.mesh_url[1] = InDir

\* C24: whenever the handler has replaced mesh_url by a local path, a file is at
\* that path when the POST is issued, and while the POST is pending no step of
\* any invocation removes or rewrites it.
C24_LocalMeshStable ==
    [][ \A j \in Jobs : (PostPending(j) /\ LocalMesh(j)) =>
            /\ Exists(fs, jobs[j].body.input.mesh_url)
            /\ jobs'[j].pc = "dispatch" =>
                 /\ Exists(fs', jobs[j].body.input.mesh_url)
                 /\ fs'[jobs[j].body.input.mesh_url] = fs[jobs[j].body.input.mesh_url] ]_vars

====
